---- MODULE Spec2Model ----
(***************************************************************************)
(* A model of ssync.py: the manga catalog (Manga / Chapter), the filename  *)
(* parser (Chapter.build), the target-name formatter (Chapter.__str__) and *)
(* the diff/sync engine (do_sync, Manga.sync).                             *)
(*                                                                         *)
(* File names are strings and are processed character by character, the   *)
(* regular expressions of class _RX are regex syntax trees interpreted by  *)
(* a backtracking matcher with Python's priorities (ReM).  Chapter numbers *)
(* are fixed point with one decimal digit and are kept in tenths: 4.5 is   *)
(* 45, 5 and 5.0 are both 50 (Python compares and hashes them alike).      *)
(*                                                                         *)
(* A local variable of the source whose value is used more than once is    *)
(* written  CHOOSE out \in {e : x \in {v}} : TRUE, which is e with x naming  *)
(* the value v, so that v is written and computed once.                    *)
(***************************************************************************)
EXTENDS Integers, Sequences, FiniteSets, TLC

(***************************************************************************)
(* Strings                                                                 *)
(***************************************************************************)
Ch(s, i) == SubSeq(s, i, i)

InStr(c, cs) == \E j \in 1..Len(cs) : Ch(cs, j) = c

IndexIn(c, cs) == CHOOSE j \in 1..Len(cs) : Ch(cs, j) = c

UPPER == "ABCDEFGHIJKLMNOPQRSTUVWXYZ"
LOWER == "abcdefghijklmnopqrstuvwxyz"
DIGITS == "0123456789"
ALNUM == UPPER \o LOWER \o DIGITS

LowerCh(c) == IF InStr(c, UPPER) THEN Ch(LOWER, IndexIn(c, UPPER)) ELSE c

RECURSIVE str_lower(_)
str_lower(s) == IF s = "" THEN "" ELSE LowerCh(Head(s)) \o str_lower(Tail(s))

StartsAt(s, i, lit, ic) ==
    /\ i + Len(lit) <= Len(s)
    /\ \A j \in 1..Len(lit) :
          IF ic THEN LowerCh(Ch(s, i + j)) = LowerCh(Ch(lit, j))
                ELSE Ch(s, i + j) = Ch(lit, j)

\* first offset (0-based) at or after i where lit occurs in s, or -1
RECURSIVE str_find(_, _, _)
str_find(s, lit, i) ==
    IF i + Len(lit) > Len(s) THEN -1
    ELSE IF StartsAt(s, i, lit, FALSE) THEN i
    ELSE str_find(s, lit, i + 1)

\* str.replace(old, new): every non-overlapping occurrence, left to right;
\* the empty string occurs before every character and at the end
RECURSIVE str_replace(_, _, _)
str_replace(s, old, new) ==
    IF old = "" THEN IF s = "" THEN new
                     ELSE new \o SubSeq(s, 1, 1) \o str_replace(SubSeq(s, 2, Len(s)), old, new)
    ELSE LET p == str_find(s, old, 0)
         IN  IF p < 0 THEN s
             ELSE SubSeq(s, 1, p) \o new
                    \o str_replace(SubSeq(s, p + Len(old) + 1, Len(s)), old, new)

\* offset just before the last occurrence of character c in s, or -1
RECURSIVE str_rfind(_, _, _)
str_rfind(s, c, i) ==
    IF i < 1 THEN -1 ELSE IF Ch(s, i) = c THEN i - 1 ELSE str_rfind(s, c, i - 1)

\* name.rsplit('.', 1): <<name>> or <<stem, suffix>>
rsplit1(s) ==
    LET p == str_rfind(s, ".", Len(s))
    IN  IF p < 0 THEN <<s>> ELSE <<SubSeq(s, 1, p), SubSeq(s, p + 2, Len(s))>>

\* name.rsplit('.')[-1] and name.rsplit('.', 1)[-1]: the text after the last dot
suffix_of(s) == LET t == rsplit1(s) IN t[Len(t)]

(***************************************************************************)
(* Regular expressions: syntax trees and a backtracking matcher.           *)
(* ReM(st, s, i, caps) matches the stack st of tree nodes, in order, on s  *)
(* from offset i and returns the first match <<end, caps>> in Python's     *)
(* priority order (alternatives left to right, repetitions greedy), or     *)
(* NoMatch.                                                                *)
(***************************************************************************)
GroupNames == {"volume", "group", "title", "number", "g1"}
NoCaps == [g \in GroupNames |-> ""]
NoMatch == <<-1, NoCaps>>

Lit(x) == [k |-> "lit", s |-> x, ic |-> FALSE]
LitI(x) == [k |-> "lit", s |-> x, ic |-> TRUE]
Set(cs) == [k |-> "set", cs |-> cs, neg |-> FALSE]
NotSet(cs) == [k |-> "set", cs |-> cs, neg |-> TRUE]
Dot == NotSet("")
Cat(rs) == [k |-> "cat", rs |-> rs]
Alt(rs) == [k |-> "alt", rs |-> rs]
Rep(r, lo, hi) == [k |-> "rep", r |-> r, lo |-> lo, hi |-> hi]
INF == -1
Star(r) == Rep(r, 0, INF)
Plus(r) == Rep(r, 1, INF)
Opt(r) == Rep(r, 0, 1)
Grp(name, r) == [k |-> "grp", name |-> name, r |-> r]
Ref(name) == [k |-> "ref", name |-> name]
NotAhead(r) == [k |-> "nla", r |-> r]
Bol == [k |-> "bol"]
Eos == [k |-> "eos"]
WordB == [k |-> "wb"]

IsWordAt(s, i) == i >= 1 /\ i <= Len(s) /\ InStr(Ch(s, i), ALNUM \o "_")

RECURSIVE ReM(_, _, _, _)
RECURSIVE ReBack(_, _, _, _, _, _)
ReBack(rest, s, i, caps, k, lo) ==
    IF k < lo THEN NoMatch
    ELSE LET r == ReM(rest, s, i + k, caps)
         IN  IF r[1] >= 0 THEN r ELSE ReBack(rest, s, i, caps, k - 1, lo)

ReM(st, s, i, caps) ==
    IF Len(st) = 0 THEN <<i, caps>>
    ELSE
    LET n == Head(st)
        rest == Tail(st)
    IN  CASE n.k = "lit" ->
               IF n.ic THEN
                   IF StartsAt(s, i, n.s, TRUE)
                   THEN ReM(rest, s, i + Len(n.s), caps) ELSE NoMatch
               ELSE
                   IF StartsAt(s, i, n.s, FALSE)
                   THEN ReM(rest, s, i + Len(n.s), caps) ELSE NoMatch
          [] n.k = "set" ->
               IF i < Len(s) /\ (InStr(Ch(s, i + 1), n.cs) /= n.neg)
               THEN ReM(rest, s, i + 1, caps) ELSE NoMatch
          [] n.k = "cat" -> ReM(n.rs \o rest, s, i, caps)
          [] n.k = "alt" ->
               IF Len(n.rs) = 0 THEN NoMatch
               ELSE LET r == ReM(<<Head(n.rs)>> \o rest, s, i, caps)
                    IN  IF r[1] >= 0 THEN r
                        ELSE ReM(<<Alt(Tail(n.rs))>> \o rest, s, i, caps)
          [] n.k = "rep" /\ n.r.k = "set" ->
               \* a repeated character class: take the longest run, give back
               \* one character at a time until the rest matches
               LET top == IF n.hi < 0 \/ i + n.hi > Len(s) THEN Len(s) - i ELSE n.hi
                   run == CHOOSE r \in 0..top :
                             /\ \A j \in 1..r : InStr(Ch(s, i + j), n.r.cs) /= n.r.neg
                             /\ r < top => (InStr(Ch(s, i + r + 1), n.r.cs) = n.r.neg)
               IN  ReBack(rest, s, i, caps, run, n.lo)
          [] n.k = "rep" ->
               LET more == IF n.hi = 0 THEN NoMatch
                           ELSE ReM(<<n.r, [k |-> "rep1", r |-> n.r, at |-> i,
                                            lo |-> IF n.lo > 0 THEN n.lo - 1 ELSE 0,
                                            hi |-> IF n.hi > 0 THEN n.hi - 1 ELSE n.hi]>>
                                     \o rest, s, i, caps)
               IN  IF more[1] >= 0 THEN more
                   ELSE IF n.lo = 0 THEN ReM(rest, s, i, caps) ELSE NoMatch
          [] n.k = "rep1" ->
               \* an iteration that consumed nothing ends the repetition
               IF i = n.at THEN (IF n.lo = 0 THEN ReM(rest, s, i, caps) ELSE NoMatch)
               ELSE ReM(<<Rep(n.r, n.lo, n.hi)>> \o rest, s, i, caps)
          [] n.k = "grp" ->
               ReM(<<n.r, [k |-> "end", name |-> n.name, at |-> i]>> \o rest, s, i, caps)
          [] n.k = "end" ->
               ReM(rest, s, i, [caps EXCEPT ![n.name] = SubSeq(s, n.at + 1, i)])
          [] n.k = "ref" ->
               IF StartsAt(s, i, caps[n.name], FALSE)
               THEN ReM(rest, s, i + Len(caps[n.name]), caps) ELSE NoMatch
          [] n.k = "nla" ->
               IF ReM(<<n.r>>, s, i, caps)[1] >= 0 THEN NoMatch
               ELSE ReM(rest, s, i, caps)
          [] n.k = "bol" -> IF i = 0 THEN ReM(rest, s, i, caps) ELSE NoMatch
          [] n.k = "eos" -> IF i = Len(s) THEN ReM(rest, s, i, caps) ELSE NoMatch
          [] n.k = "wb" ->
               IF IsWordAt(s, i) /= IsWordAt(s, i + 1)
               THEN ReM(rest, s, i, caps) ELSE NoMatch

\* Pattern.match / Pattern.fullmatch: TRUE when they return a match
re_match(re, s) == ReM(<<re>>, s, 0, NoCaps)[1] >= 0
re_fullmatch(re, s) == ReM(<<re, Eos>>, s, 0, NoCaps)[1] >= 0

\* Pattern.search from offset i: <<start, end, caps>>, start = -1 when none
re_search_from(re, s, i) ==
    CHOOSE out \in {
        LET starts == {j \in DOMAIN rs : rs[j][1] >= 0}
        IN  IF starts = {} THEN <<-1, -1, NoCaps>>
            ELSE LET j == CHOOSE a \in starts : \A b \in starts : a <= b
                 IN  <<j, rs[j][1], rs[j][2]>>
        : rs \in {[j \in i..Len(s) |-> ReM(<<re>>, s, j, NoCaps)]}} : TRUE

re_search(re, s) == re_search_from(re, s, 0)

\* Pattern.sub(repl, s, count): count = 0 replaces every match
RECURSIVE re_sub_from(_, _, _, _, _)
re_sub_from(re, repl, s, limit, i) ==
    CHOOSE out \in {
        IF m[1] < 0 THEN s
        ELSE LET t == SubSeq(s, 1, m[1]) \o repl \o SubSeq(s, m[2] + 1, Len(s))
                 nxt == m[1] + Len(repl) + (IF m[2] = m[1] THEN 1 ELSE 0)
             IN  IF limit = 1 THEN t
                 ELSE re_sub_from(re, repl, t, IF limit = 0 THEN 0 ELSE limit - 1, nxt)
        : m \in {re_search_from(re, s, i)}} : TRUE

re_sub(re, repl, s, limit) == re_sub_from(re, repl, s, limit, 0)

(***************************************************************************)
(* class _RX: the expressions Chapter._RE uses, and the argument defaults  *)
(***************************************************************************)
RX_CLEAN_SPC == Plus(Set(" _."))

RX_CLEAN_DASH == Cat(<<Star(Lit(".")), Opt(Lit("-")), Plus(Lit("."))>>)

RX_VOLUME ==
    Cat(<<Alt(<<Bol, Set(".")>>),
          Alt(<<LitI("v"), LitI("vol"), LitI("volume")>>),
          Opt(Lit(".")),
          Grp("volume", Rep(Set(DIGITS), 1, 2))>>)

\* (?:[0-9]+([.p][0-9])?)  -- the first alternative of CHAPTER_NUM
RX_NUM == Cat(<<Plus(Set(DIGITS)), Opt(Cat(<<Set(".p"), Set(DIGITS)>>))>>)

\* (?P<number>{CHAPTER_NUM}(-{CHAPTER_NUM})?) with CHAPTER_NUM spliced in as
\* text: its alternation is not parenthesised, so the alternatives are
\*   NUM | oneshot | bonus(-NUM|oneshot|bonus)?
RX_NUMBER_GROUP ==
    Grp("number",
        Alt(<<RX_NUM,
              Lit("oneshot"),
              Cat(<<Lit("bonus"),
                    Opt(Alt(<<Cat(<<Lit("-"), RX_NUM>>), Lit("oneshot"), Lit("bonus")>>))>>)>>))

RX_CHAPTER ==
    Cat(<<WordB,
          Alt(<<LitI("c"), LitI("ch"), LitI("chapter"), Cat(<<Star(Lit(".")), Lit("#")>>)>>),
          Star(Set("#. -")),
          RX_NUMBER_GROUP,
          Opt(Cat(<<Lit("v"), Set("123456789")>>))>>)

\* (:?^|[.#]) is a capturing group: an optional colon before the start, or [.#]
RX_NUMBER ==
    Cat(<<Alt(<<Cat(<<Opt(Lit(":")), Bol>>), Set(".#")>>),
          RX_NUMBER_GROUP,
          Opt(Cat(<<Lit("v"), Set("123456789")>>))>>)

RX__TITLE == Grp("title", Cat(<<Set(ALNUM), Plus(Dot)>>))

RX_QUOTE == Cat(<<Set("`\"'"), NotAhead(Cat(<<Set("sm"), WordB>>))>>)

RX_TITLE_Q == Cat(<<Grp("g1", RX_QUOTE), RX__TITLE, Ref("g1")>>)

\* the quote glyphs of TITLE_G are outside the alphabet of the names modelled
RX_TITLE_G == Cat(<<Set(""), RX__TITLE, Set("")>>)

RX_TITLE_E ==
    Grp("title", Cat(<<Lit("Episode"), Dot, Plus(Set(DIGITS)),
                       Star(Cat(<<Opt(Lit(".")), Plus(NotSet("["))>>))>>))

RX_TITLE == Cat(<<Lit("-"), Set("."), RX__TITLE>>)

RX_GROUP_B == Cat(<<Lit("["), Grp("group", Cat(<<Set(ALNUM), Star(NotSet("]"))>>)), Lit("]")>>)

RX_GROUP ==
    Cat(<<Opt(Cat(<<LitI("uploaded"), Dot, LitI("by"), Dot>>)),
          Grp("group", Cat(<<Set(ALNUM), Plus(NotSet("-"))>>))>>)

\* the default of --filter and of --file_filter:  \..*|.*_tmp|~.*
RX_DEFAULT_FILTER ==
    Alt(<<Cat(<<Lit("."), Star(Dot)>>),
          Cat(<<Star(Dot), Lit("_tmp")>>),
          Cat(<<Lit("~"), Star(Dot)>>)>>)

SUFFIXES_ARCHIVE == {"tgz", "tar", "cbz", "tbz", "gz", "rar", "zip", "7z", "xz"}
SUFFIXES_IMAGE == {"jpg", "jpeg", "png", "gif"}

(***************************************************************************)
(* Numbers: float(), the :05.1f format, ranges                             *)
(***************************************************************************)
RECURSIVE str_to_int(_)
str_to_int(s) ==
    IF s = "" THEN 0
    ELSE 10 * str_to_int(SubSeq(s, 1, Len(s) - 1)) + (IndexIn(Ch(s, Len(s)), DIGITS) - 1)

RECURSIVE int_to_str(_)
int_to_str(n) ==
    IF n < 10 THEN Ch(DIGITS, n + 1)
    ELSE int_to_str(n \div 10) \o Ch(DIGITS, (n % 10) + 1)

RECURSIVE zero_pad(_, _)
zero_pad(s, width) == IF Len(s) >= width THEN s ELSE zero_pad("0" \o s, width)

\* float(s) of a text RX_NUMBER_GROUP can capture, in tenths; -1 is ValueError
\* ("12p5", "", "oneshot" are no float literals)
is_digits(s) == s /= "" /\ \A j \in 1..Len(s) : InStr(Ch(s, j), DIGITS)

to_float(s) ==
    IF is_digits(s) THEN 10 * str_to_int(s)
    ELSE IF Len(s) >= 3 /\ is_digits(SubSeq(s, 1, Len(s) - 2))
               /\ Ch(s, Len(s) - 1) = "." /\ is_digits(Ch(s, Len(s)))
         THEN 10 * str_to_int(SubSeq(s, 1, Len(s) - 2)) + str_to_int(Ch(s, Len(s)))
    ELSE -1

\* f"{n:05.1f}" of a number in tenths
fmt_05_1f(n) == zero_pad(int_to_str(n \div 10) \o "." \o int_to_str(n % 10), 5)

Max2(a, b) == IF a >= b THEN a ELSE b

\* s.split('-')
RECURSIVE str_split_dash(_)
str_split_dash(s) ==
    LET p == str_find(s, "-", 0)
    IN  IF p < 0 THEN <<s>>
        ELSE <<SubSeq(s, 1, p)>> \o str_split_dash(SubSeq(s, p + 2, Len(s)))

\* the values sub_range yields, in order (tenths); the caller checks _start <= _end
sub_range(_start, _end) ==
    LET whole == <<_start \div 10, _end \div 10>>
        sub == Max2(0, Max2(_start % 10, _end % 10))
        ofX(x) == IF sub > 1
                  THEN LET ys == [s \in 1..sub |-> 10 * x + s]
                       IN  SelectSeq(ys, LAMBDA y : ~(y < _start \/ y > _end))
                  ELSE <<10 * x>>
        RECURSIVE over(_)
        over(x) == IF x > whole[2] THEN <<>> ELSE ofX(x) \o over(x + 1)
    IN  over(whole[1])

\* list(ranges(start, *ends)) on numbers in tenths: [ok, out]; ok = FALSE is
\* the ValueError of sub_range (start > end)
RECURSIVE ranges_from(_, _, _)
ranges_from(start, v, ends) ==
    IF Len(ends) = 0 THEN [ok |-> TRUE, out |-> <<v>>]
    ELSE LET end == Head(ends)
         IN  IF start > end THEN [ok |-> FALSE, out |-> <<>>]
             ELSE LET vs == sub_range(start, end)
                      v2 == IF Len(vs) = 0 THEN v ELSE vs[Len(vs)]
                      r == ranges_from(v2, v2, Tail(ends))
                  IN  [ok |-> r.ok,
                       out |-> SelectSeq(vs, LAMBDA y : y /= end) \o r.out]

ranges(start, ends) == ranges_from(start, start, ends)

\* bookends(nums) on numbers in tenths; `not start` and `if end` are true of
\* the number 0, and round(start - int(start), 3) or 1 is the fraction of
\* start, or 1
bookends(nums) ==
    LET RECURSIVE sorted(_)
        sorted(S) ==
            IF S = {} THEN <<>>
            ELSE LET a == CHOOSE x \in S : \A y \in S : x <= y
                 IN  <<a>> \o sorted(S \ {a})
        RECURSIVE loop(_, _, _, _, _)
        loop(rest, start, end, step, pairs) ==
            IF rest = <<>> THEN (IF end /= 0 THEN Append(pairs, <<start, end>>) ELSE pairs)
            ELSE LET i == Head(rest)
                 IN  IF start = 0 \/ i > end + step
                     THEN loop(Tail(rest), i, i, IF i % 10 /= 0 THEN i % 10 ELSE 10,
                               IF end /= 0 THEN Append(pairs, <<start, end>>) ELSE pairs)
                     ELSE loop(Tail(rest), start, i, step, pairs)
    IN  loop(sorted(nums), 0, 0, 10, <<>>)

(***************************************************************************)
(* class Chapter                                                           *)
(***************************************************************************)
\* trim = lambda s: re.sub(r'(^[. _-]+|[. _-]+$)', '', s) if s else None
\* (None and the empty text are both written "")
trim(s) ==
    re_sub(Alt(<<Cat(<<Bol, Plus(Set(". _-"))>>), Cat(<<Plus(Set(". _-")), Eos>>)>>), "", s, 0)

NoChapter ==
    [numbers |-> {}, group |-> "", volume |-> "", title |-> "", path |-> <<<<>>, "">>]

\* Chapter.__init__; number is the captured text, or "" with int0 = TRUE for
\* the integer 0 that build passes for a volume without number
Chapter_init(number, int0, path, group, volume, title) ==
    CHOOSE out \in {
        LET made(nums) == [ok |-> TRUE,
                           ch |-> [numbers |-> nums, group |-> trimmed.group,
                                   volume |-> volume, title |-> trimmed.title,
                                   path |-> path]]
            pieces == str_split_dash(number)
            fl == [i \in 1..Len(pieces) |-> to_float(pieces[i])]
            r == ranges(fl[1], Tail(fl))
        IN  IF (int0 \/ number = "") /\ volume = "" THEN [ok |-> FALSE, ch |-> NoChapter]
            ELSE IF int0 \/ re_match(Alt(<<LitI("oneshot"), LitI("bonus")>>), number)
                 THEN made({0})
            ELSE IF (\E i \in 1..Len(fl) : fl[i] < 0) \/ ~r.ok
                 THEN [ok |-> FALSE, ch |-> NoChapter]
            ELSE made({r.out[i] : i \in 1..Len(r.out)})
        : trimmed \in {[f \in {"group", "title"} |->
                           trim(IF f = "group" THEN group ELSE title)]}} : TRUE

\* Chapter._RE: <<expression, field>>, "" where the source has None
Chapter_RE ==
    << <<RX_CLEAN_SPC, "">>,
       <<RX_VOLUME, "volume">>,
       <<RX_GROUP_B, "group">>,
       <<RX_TITLE_Q, "title">>,
       <<RX_TITLE_G, "title">>,
       <<RX_CHAPTER, "number">>,
       <<RX_NUMBER, "number">>,
       <<RX_CLEAN_SPC, "">>,
       <<RX_TITLE_E, "title">>,
       <<RX_TITLE, "title">>,
       <<RX_CLEAN_SPC, "">>,
       <<RX_GROUP, "group">> >>

Fields == {"volume", "group", "title", "number"}

\* Chapter.name_to_pattern: re.sub('[. ]+', name.lower(), '.')  (sic: the
\* arguments are pattern, replacement, text)
name_to_pattern(name) == re_sub(Plus(Set(". ")), str_lower(name), ".", 0)

\* the loop of Chapter.build over the rules of _RE still to apply: the
\* parts found
RECURSIVE build_rules(_, _, _)
build_rules(rules, name, parts) ==
    IF rules = <<>> THEN parts
    ELSE LET regex == Head(rules)[1]
             field == Head(rules)[2]
         IN  IF field /= "" /\ parts[field] /= "" THEN build_rules(Tail(rules), name, parts)
             ELSE CHOOSE out \in {
                      IF m[1] < 0 THEN build_rules(Tail(rules), name, parts)
                      ELSE build_rules(Tail(rules),
                               re_sub(regex, ".", name, IF field = "" THEN 0 ELSE 1),
                               [f \in Fields |-> IF m[3][f] /= "" THEN m[3][f] ELSE parts[f]])
                      : m \in {re_search(regex, name)}} : TRUE

\* Chapter.build: the parts its loop over _RE finds in the name of the entry
Chapter_parts(manga_name, fname, is_file) ==
    LET name0 == IF is_file /\ InStr(".", fname) THEN rsplit1(fname)[1] ELSE fname
        name1 == re_sub(RX_CLEAN_DASH, name0, ".", 0)
        name2 == str_replace(name1, name_to_pattern(manga_name), ".")
    IN  build_rules(Chapter_RE, name2, [f \in Fields |-> ""])

\* Chapter.build without its rule that a volume alone stands for the number 0
Chapter_build_strict(manga_name, dir, fname, is_file) ==
        CHOOSE out \in {
            IF parts.number = "" THEN [ok |-> FALSE, ch |-> NoChapter]
            ELSE Chapter_init(parts.number, FALSE, <<dir, fname>>,
                              parts.group, parts.volume, parts.title)
            : parts \in {Chapter_parts(manga_name, fname, is_file)}} : TRUE

\* Chapter.build(manga, path) for the entry `fname` of directory `dir`
Chapter_build(manga_name, dir, fname, is_file) ==
        CHOOSE out \in {
            LET int0 == parts.volume /= "" /\ parts.number = ""
            IN  IF parts.number = "" /\ ~int0 THEN [ok |-> FALSE, ch |-> NoChapter]
                ELSE Chapter_init(parts.number, int0, <<dir, fname>>,
                                  parts.group, parts.volume, parts.title)
            : parts \in {Chapter_parts(manga_name, fname, is_file)}} : TRUE

SetMin(S) == CHOOSE a \in S : \A b \in S : a <= b
SetMax(S) == CHOOSE a \in S : \A b \in S : a >= b

\* Chapter.__str__
Chapter_str(c, args_volume) ==
    LET nums == <<SetMin(c.numbers), SetMax(c.numbers)>>
        zero == c.numbers = {} \/ c.numbers = {0}
        o1 == IF c.volume /= "" /\ (zero \/ args_volume) THEN "v" \o c.volume ELSE ""
        o2 == IF zero THEN o1
              ELSE IF nums[1] = nums[2] THEN o1 \o "c" \o fmt_05_1f(nums[1])
              ELSE o1 \o "c" \o fmt_05_1f(nums[1]) \o "-" \o fmt_05_1f(nums[2])
        o3 == IF c.group /= "" THEN o2 \o ".[" \o c.group \o "]" ELSE o2
    IN  IF c.title /= "" THEN o3 \o ".\"" \o c.title \o "\"" ELSE o3

(***************************************************************************)
(* Paths and the file system.  A path is the tuple of its components; an   *)
(* entry of the file system is a file or a directory `name` inside the     *)
(* directory `dir`; data tells what the entry holds: <<"orig", p>> is what *)
(* was there before the run, <<"copy", p>> a copy of p, <<"zip", p>> the   *)
(* archive made of directory p, <<"part", p>> an archive left unfinished.  *)
(***************************************************************************)
parent_of(p) == SubSeq(p, 1, Len(p) - 1)
name_of(p) == IF p = <<>> THEN "" ELSE p[Len(p)]
joinpath(p, n) == Append(p, n)

Entry(dir, name, kind, data) == [dir |-> dir, name |-> name, kind |-> kind, data |-> data]
Orig(dir, name, kind) == Entry(dir, name, kind, <<"orig", dir, name>>)

\* what is at dir/name in the file system f: its entries, none or one
At(f, dir, name) == {e \in f : e.dir = dir /\ e.name = name}
path_exists(f, dir, name) == At(f, dir, name) /= {}
path_is_file(f, dir, name) == \E e \in At(f, dir, name) : e.kind = "file"
path_is_dir(f, dir, name) == \E e \in At(f, dir, name) : e.kind = "dir"

(***************************************************************************)
(* The names of the model.  SRC is the source root, DST the destination    *)
(* root; a series directory is a child of one of them.                     *)
(***************************************************************************)
SRC == <<"S">>
DST == <<"D">>

SeriesNames == {"Alpha", "Beta", "Aka", "Second"}

\* spellings of chapter 1 that Chapter.__str__ renders alike
DupNames == <<"c1.zip", "c01.zip", "ch1.zip", "1.zip", "#1.zip", "c001.zip">>

\* other entries a source series directory may hold: <<name, is_file>>
ExtraEntries ==
    {<<"Alpha c2.zip", TRUE>>, <<"c4.5.zip", TRUE>>, <<"oneshot.zip", TRUE>>,
     <<"Alpha v02.zip", TRUE>>, <<"[GroupX] Alpha v02c015.zip", TRUE>>,
     <<"Alpha.zip", TRUE>>, <<"~c9.zip", TRUE>>}
\* chapter directories of loose pages
PageDirs == {<<"c7", FALSE>>, <<"c07", FALSE>>}
BetaEntries == {<<"Beta c1.zip", TRUE>>}
\* entries a destination series directory may hold before the run
DestEntries == {<<"c001.0.zip", TRUE>>, <<"c015.0.zip", TRUE>>, <<".zip", TRUE>>}

PoolEntries == {<<DupNames[i], TRUE>> : i \in 1..Len(DupNames)} \cup ExtraEntries
                   \cup PageDirs \cup BetaEntries \cup DestEntries

\* the entries Manga.sync._to_cbz writes for the chapters of the pool that
\* are no entries of the pool themselves
TargetEntries ==
    {<<"c002.0.[Alpha].zip", TRUE>>, <<"c004.5.zip", TRUE>>, <<"c009.0.zip", TRUE>>,
     <<"v02.[Alpha].zip", TRUE>>, <<"c015.0.[GroupX].zip", TRUE>>,
     <<"v02c015.0.[GroupX].zip", TRUE>>, <<"c007.0.cbz", TRUE>>,
     <<"c001.0.[Beta].zip", TRUE>>}

\* Chapter.build of every entry of the pool, and of every entry written for
\* one, under every series name
BuildPool ==
    [k \in SeriesNames \X (PoolEntries \cup TargetEntries) |->
        Chapter_build(k[1], <<>>, k[2][1], k[2][2])] @@ <<>>

\* Chapter.build(manga, path): the parse, looked up when it was computed before
build(manga_name, dir, fname, is_file) ==
    CHOOSE out \in {
        LET k == <<manga_name, <<fname, is_file>>>>
            r == IF k \in DOMAIN parsed THEN parsed[k]
                 ELSE Chapter_build(manga_name, <<>>, fname, is_file)
        IN  [ok |-> r.ok, ch |-> [r.ch EXCEPT !.path = <<dir, fname>>]]
        : parsed \in {BuildPool}} : TRUE

(***************************************************************************)
(* class Manga.  A Manga object is a record; `mangas` holds the objects in *)
(* the order of their construction and an object's identity is its index.  *)
(* A world w is what constructions read and write: the file system w.fs,   *)
(* the objects w.mangas, the catalog w.all (Manga.all: directory -> object)*)
(* the errors logged w.errlog, and the object returned w.ret (0 is None).  *)
(* Alias patterns are plain names, compiled to a literal.                  *)
(***************************************************************************)
\* Path.exists() of a directory; the two roots and their parent exist
dir_exists(f, p) == Len(p) <= 1 \/ path_exists(f, parent_of(p), name_of(p))

\* Path.mkdir(parents=True, exist_ok=True)
mkdir(f, p) ==
    IF dir_exists(f, p) THEN f
    ELSE f \cup {Entry(parent_of(p), name_of(p), "dir", <<"made", parent_of(p), name_of(p)>>)}

_check_aliases(aliases, name) == \E a \in aliases : re_fullmatch(a, name)

\* Manga.__eq__(self, other) for another Manga or a name
Manga_eq(self, otherName) ==
    self.name = otherName \/ _check_aliases(self.aliases, otherName)

Manga_missing_all(self, source) == source
Manga_missing(self, source) ==
    IF self.disabled THEN {} ELSE source \ DOMAIN self.chapters

\* Manga._find_chapters letting the exception of Chapter.build through: the
\* scan of a directory with an entry that does not parse finds nothing
_find_chapters_abort(disabled, f, parent, manga_name, file_filter) ==
    CHOOSE out \in {
        IF disabled \/ \E t \in DOMAIN scanned : ~scanned[t].ok /\ scanned[t].error = "Parser"
        THEN [chapters |-> {}, errors |-> {}]
        ELSE [chapters |-> {scanned[e].ch : e \in {t \in DOMAIN scanned : scanned[t].ok}},
              errors |-> {<<scanned[e].error, e.name>> :
                             e \in {t \in DOMAIN scanned :
                                       ~scanned[t].ok /\ scanned[t].error /= ""}}]
        : scanned \in {
            [e \in {t \in f : t.dir = parent} |->
                IF re_match(file_filter, e.name)
                THEN [ok |-> FALSE, ch |-> NoChapter, error |-> "Filter"]
                ELSE IF e.kind = "file" /\ ~(Len(rsplit1(e.name)) = 2
                                               /\ suffix_of(e.name) \in SUFFIXES_ARCHIVE)
                THEN [ok |-> FALSE, ch |-> NoChapter, error |-> ""]
                ELSE build(manga_name, parent, e.name, e.kind = "file")
                         @@ [error |-> "Parser"]] @@ <<>>}} : TRUE

_find_chapters(disabled, f, parent, manga_name, file_filter) ==
    CHOOSE out \in {
        IF disabled THEN [chapters |-> {}, errors |-> {}]
        ELSE [chapters |-> {scanned[e].ch : e \in {t \in DOMAIN scanned : scanned[t].ok}},
              errors |-> {<<scanned[e].error, e.name>> :
                             e \in {t \in DOMAIN scanned :
                                       ~scanned[t].ok /\ scanned[t].error /= ""}}]
        : scanned \in {
            [e \in {t \in f : t.dir = parent} |->
                IF re_match(file_filter, e.name)
                THEN [ok |-> FALSE, ch |-> NoChapter, error |-> "Filter"]
                ELSE IF e.kind = "file" /\ ~(Len(rsplit1(e.name)) = 2
                                               /\ suffix_of(e.name) \in SUFFIXES_ARCHIVE)
                THEN [ok |-> FALSE, ch |-> NoChapter, error |-> ""]
                ELSE build(manga_name, parent, e.name, e.kind = "file")
                         @@ [error |-> "Parser"]] @@ <<>>}} : TRUE

\* self.chapters filing each chapter under its numbers and under the number
\* after each as well, as for a chapter that spans two numbers
Manga_chapters_span(found) ==
    [n \in UNION {c.numbers \cup {x + 1 : x \in c.numbers} : c \in found} |->
        {c \in found : n \in c.numbers \/ n - 1 \in c.numbers}]

\* self.chapters: number -> the chapters carrying it
Manga_chapters(found) ==
    [n \in UNION {c.numbers : c \in found} |-> {c \in found : n \in c.numbers}]

\* Manga.__init__(path, name, aliases, disabled); name "" is None
\* seasons is the dict given as seasons=, a set of <<pattern, value>>;
\* group_name gives the group that owns the directory in the file system,
\* whatever group= was given
Manga_init(w, path, name, aliases, disabled, file_filter, seasons) ==
    LET parent == path
        parent_name == name_of(parent)
        self_name == IF name = "" THEN parent_name ELSE name
        given == {LitI(a) : a \in aliases}
        self_aliases == IF parent_name /= self_name /\ ~_check_aliases(given, parent_name)
                        THEN given \cup {Lit(parent_name)} ELSE given
        known == parent \in DOMAIN w.all
        f1 == IF known THEN w.fs ELSE mkdir(w.fs, parent)
        id == Len(w.mangas) + 1
    IN  CHOOSE out \in {
            LET self == [path |-> parent, name |-> self_name, aliases |-> self_aliases,
                         disabled |-> disabled,
                         seasons |-> seasons, group |-> "users",
                         chapters |-> Manga_chapters(found.chapters),
                         errors |-> found.errors]
            IN  [fs |-> f1,
                 mangas |-> Append(w.mangas, self),
                 all |-> [p \in DOMAIN w.all \cup {parent} |->
                             IF p = parent THEN id ELSE w.all[p]],
                 errlog |-> IF known THEN w.errlog \cup {<<"exists already", parent>>}
                            ELSE w.errlog,
                 ret |-> id]
            : found \in {_find_chapters(disabled, f1, parent, self_name, file_filter)}} : TRUE

\* Manga.create(path)
Manga_create(w, path, file_filter) ==
    IF (Len(path) > 1 /\ ~path_is_dir(w.fs, parent_of(path), name_of(path)))
           \/ path \in DOMAIN w.all
    THEN [w EXCEPT !.ret = 0]
    ELSE Manga_init(w, path, "", {}, FALSE, file_filter, {})

\* Scans.scandir(path): the names of the entries of the directory, in the
\* order ls gives for it; a directory ls leaves out is listed in an order
\* of no consequence
scandir(f, ls, path) ==
    LET RECURSIVE order(_)
        order(S) == IF S = {} THEN <<>>
                    ELSE LET x == CHOOSE y \in S : TRUE IN <<x>> \o order(S \ {x})
    IN  IF path \in DOMAIN ls THEN ls[path]
        ELSE order({e.name : e \in {t \in f : t.dir = path}})

\* Manga.create_all: the loop that counts the archives and the images among
\* the files `names` still to look at; it ends at the fourth image
RECURSIVE counts(_, _, _, _, _)
counts(f, path, names, archives, images) ==
    IF names = <<>> THEN <<archives, images>>
    ELSE IF ~path_is_file(f, path, Head(names))
         THEN counts(f, path, Tail(names), archives, images)
    ELSE LET suffix == suffix_of(Head(names))
             a == IF suffix \in SUFFIXES_ARCHIVE THEN archives + 1 ELSE archives
             i == IF suffix \in SUFFIXES_IMAGE THEN images + 1 ELSE images
         IN  IF suffix \in SUFFIXES_IMAGE /\ i > 3 THEN <<a, i>>
             ELSE counts(f, path, Tail(names), a, i)

\* Manga.create_all (`if created: return created`): the directory is a
\* container of the Series its subdirectories gave; _never goes on to count
\* the files of the directory whatever they gave
container_never(created) == FALSE
container(created) == created /= <<>>

\* Manga.create_all(path, ignores, do_load=False): the Series inferred in
\* the tree of path, [w, list, ignores] with list the objects returned (0 is
\* None; <<>> is also the None returned when nothing is inferred) and
\* ignores the set as the call leaves it.  No entry is a symlink.
RECURSIVE create_all(_, _, _, _, _)
create_all(w, path, file_filter, ls, ignores) ==
    LET known == ignores \cup DOMAIN w.all
        paths == scandir(w.fs, ls, path)
        RECURSIVE subdirs(_, _, _, _)
        subdirs(w1, names, ign, created) ==
            IF names = <<>> THEN [w |-> w1, list |-> created, ignores |-> ign]
            ELSE IF ~path_is_dir(w1.fs, path, Head(names))
                 THEN subdirs(w1, Tail(names), ign, created)
            ELSE CHOOSE out \in {
                     IF added.list = <<>>
                     THEN subdirs(added.w, Tail(names), added.ignores, created)
                     ELSE IF path \in DOMAIN added.w.all
                          THEN [w |-> added.w, list |-> created \o added.list,
                                ignores |-> added.ignores]
                     ELSE subdirs(added.w, Tail(names), added.ignores,
                                  created \o added.list)
                     : added \in {create_all(w1, joinpath(path, Head(names)), file_filter,
                                             ls, ign)}} : TRUE
    IN  IF ~dir_exists(w.fs, path) \/ path \in known
        THEN [w |-> w, list |-> <<>>, ignores |-> known]
        ELSE CHOOSE out \in {
                 IF container(r.list) THEN r
                 ELSE CHOOSE res \in {
                          LET here == c[1] > c[2] /\ c[1] >= 1
                          IN
                          IF here \/ c[2] > 3
                          THEN CHOOSE one \in {
                                   [w |-> made, list |-> <<made.ret>>,
                                    ignores |-> r.ignores \ {path}]
                                   : made \in {Manga_create(r.w, IF here THEN path
                                                                 ELSE parent_of(path),
                                                            file_filter)}} : TRUE
                          ELSE [w |-> r.w, list |-> <<>>, ignores |-> r.ignores \ {path}]
                          : c \in {counts(r.w.fs, path, paths, 0, 0)}} : TRUE
                 : r \in {subdirs(w, paths, known \cup {path}, <<>>)}} : TRUE

\* read(source, load_metadata=False): create_all(source) with the None
\* results dropped
read_source(w, root, ls, file_filter) ==
    LET r == create_all(w, root, file_filter, ls, {})
    IN  [w |-> r.w, list |-> SelectSeq(r.list, LAMBDA v : v /= 0)]

\* Manga.load_directory(path): Manga_from for every entry of directory.yml
RECURSIVE load_directory(_, _, _, _, _)
load_directory(w, path_dir, data, file_filter, loaded) ==
    IF data = <<>> THEN [w |-> w, list |-> loaded]
    ELSE LET d == Head(data)
             \* d.path names the directory of the series, or its manga.yml
             is_yml == suffix_of(d.path) = "yml"
             path == joinpath(path_dir,
                              IF is_yml THEN SubSeq(d.path, 1, str_rfind(d.path, "/", Len(d.path)))
                              ELSE d.path)
         IN  CHOOSE out \in {
                 load_directory(w1, path_dir, Tail(data), file_filter,
                                IF w1.ret = 0 THEN loaded ELSE Append(loaded, w1.ret))
                 : w1 \in {IF ~dir_exists(w.fs, IF is_yml THEN path ELSE parent_of(path))
                           THEN [w EXCEPT !.ret = 0]
                           ELSE Manga_init(w, path, d.name, d.aliases, d.disabled,
                                           file_filter,
                                           IF "seasons" \in DOMAIN d THEN d.seasons
                                           ELSE {})}} : TRUE

\* Manga.asDict(relative) for a series directory that is a child of
\* relative.  A value of the seasons dict is <<"int", digits>> or
\* <<"str", text>>; repr of a str puts it in single quotes, or in double
\* quotes when it holds single quotes only, and escapes backslashes and the
\* quote
asDict(self) ==
    LET repr(v) ==
            IF v[1] /= "str" THEN <<"str", v[2]>>
            ELSE LET q == IF InStr("'", v[2]) /\ ~InStr("\"", v[2]) THEN "\"" ELSE "'"
                 IN  <<"str", q \o str_replace(str_replace(v[2], "\\", "\\\\"), q,
                                              "\\" \o q) \o q>>
    IN  [name |-> self.name,
         aliases |-> {a.s : a \in self.aliases},
         group |-> self.group,
         seasons |-> {<<kv[1], repr(kv[2])>> : kv \in self.seasons},
         disabled |-> self.disabled,
         path |-> name_of(self.path) \o "/manga.yml"]

\* Manga.save_directory: sorted(mangas, key=lambda v: v.name) of the Mangas
\* of Manga.directory(path_dir), those of Manga.all whose directory is a
\* child of path_dir; sorted by the place of their names in the sorted
\* sequence of the names
directory(w, path_dir) ==
    LET ids == {w.all[q] : q \in {x \in DOMAIN w.all : parent_of(x) = path_dir}}
        RECURSIVE by_name(_)
        by_name(names) ==
            IF names = <<>> THEN <<>>
            ELSE LET here == {i \in ids : w.mangas[i].name = Head(names)}
                 IN  (IF here = {} THEN <<>> ELSE <<CHOOSE i \in here : TRUE>>)
                         \o by_name(Tail(names))
    IN  by_name(<<"Aka", "Alpha", "Beta", "Second">>)

\* a save_directory that takes every manifest as loaded
never_loaded_skipped(y, dirs, path_dir) == FALSE

\* Manga.save_directory: path.exists() and path not in cls._directories,
\* for the manifest of path_dir; y tells which manifests exist, dirs which
\* were loaded
never_loaded(y, dirs, path_dir) == y[path_dir] /= <<>> /\ path_dir \notin dirs

(***************************************************************************)
(* The run: work() reads the source and the destination, do_sync matches   *)
(* every source with a destination and Manga.sync copies what is missing.  *)
(***************************************************************************)
\* bounds of the inputs
MaxDup == 5
MaxExtra == 1
MaxDest == 1
MaxOptions == 1
MaxManifest == 2
MaxFaults == 1

\* get_args: -G/--give_up default
GiveUpDefault == 3

\* re.compile of the patterns -f/--filter and -F/--file_filter are given
DEFAULT_FILTER == "\\..*|.*_tmp|~.*"
re_compile(pattern) ==
    IF pattern = DEFAULT_FILTER THEN RX_DEFAULT_FILTER
    ELSE IF pattern = "c4.*" THEN Cat(<<Lit("c4"), Star(Dot)>>)
    ELSE Lit(pattern)

\* _args.filter.fullmatch(name), looked up for the names of the pool
FilterPool ==
    [k \in {DEFAULT_FILTER, "c4.*"} \X {e[1] : e \in PoolEntries} |->
        re_fullmatch(re_compile(k[1]), k[2])] @@ <<>>
filter_fullmatch(pattern, name) ==
    IF <<pattern, name>> \in DOMAIN FilterPool THEN FilterPool[<<pattern, name>>]
    ELSE re_fullmatch(re_compile(pattern), name)

\* entries of directory.yml the destination root may hold
ManifestEntries ==
    {[path |-> "Alpha", name |-> "", aliases |-> {}, disabled |-> FALSE],
     [path |-> "Alpha", name |-> "", aliases |-> {}, disabled |-> TRUE],
     [path |-> "Aka", name |-> "", aliases |-> {"alpha"}, disabled |-> FALSE],
     [path |-> "Aka", name |-> "", aliases |-> {"alpha"}, disabled |-> TRUE],
     [path |-> "Alpha", name |-> "Second", aliases |-> {}, disabled |-> FALSE],
     [path |-> "Beta", name |-> "", aliases |-> {}, disabled |-> FALSE]}

\* a series directory `name` of `root` holding the entries es before the run
SeriesDir(root, name, es) ==
    {Orig(root, name, "dir")} \cup
    {Orig(joinpath(root, name), e[1], IF e[2] THEN "file" ELSE "dir") : e \in es}

VARIABLES
    fs,          \* the file system under the two roots
    args,        \* _args, the command line
    manifest,    \* the entries of DST/directory.yml
    listing,     \* directory -> the order in which scandir lists its entries
    mangas,      \* the Manga objects, by identity
    all,         \* Manga.all
    errlog,      \* what logging.error has been given by Manga.__init__
    srcs, dsts,  \* work(): the lists read() returned
    pc,          \* where work() is
    si,          \* do_sync: the index in srcs of `src`
    dst,         \* do_sync: the destination of src, 0 for None
    missing,     \* do_sync: the names of the sources without destination
    copy_fails,  \* work(): the failures dict handed to do_sync
    fails,       \* Manga.sync: its failures dict
    shared,      \* Manga.sync: fails is the caller's dict, not a new one
    todo_nums,   \* Manga.sync: the missing numbers not yet expanded
    todo,        \* Manga.sync: chapters of the current number not yet reached
    count,       \* Manga.sync: count
    attempts,    \* history: the calls of _to_cbz and their outcome
    matched,     \* history: the destination dsts.index gave for each source
    synced,      \* history: the destination src.sync was called with
    cut,         \* history: the sources whose sync left its loop before the end
    reported,    \* what work() printed as failed at its end
    faults       \* number of changes the environment made during the run

vars == <<fs, args, manifest, listing, mangas, all, errlog, srcs, dsts, pc, si, dst,
          missing, copy_fails, fails, shared, todo_nums, todo, count, attempts,
          matched, synced, cut, reported, faults>>

\* the state of the other specifications of this module, which a run of
\* work() leaves alone
VARIABLES
    fn_call,       \* a call of a function of ssync.py: its name and arguments
    fn_result,     \* <<what the call returned>>, <<>> before it has
    yml,           \* the directory.yml of a directory: <<>>, or <<its entries>>
    _directories,  \* the keys of Manga._directories
    last_save,     \* history: the last call of Manga.save_directory
    runs,          \* the number of runs of the program that have ended
    queue_file,    \* wait.py: QUEUE_PATH, <<>> or <<the queue it holds>>
    wpc,           \* wait.py: where each process is
    position,      \* wait_idle_queue: position, of each process
    queue          \* wait_idle_queue: queue, of each process

others == <<fn_call, fn_result, yml, _directories, last_save, runs,
            queue_file, wpc, position, queue>>

NoDict == <<>>

\* no call of Manga.save_directory yet
NoSave ==
    [path |-> <<>>, existed |-> FALSE, loaded |-> FALSE, wrote |-> FALSE, ret |-> 0,
     before |-> <<>>, after |-> <<>>, objs |-> <<>>]

\* the parts of the state in G are those of a program that does not run
Idle(G) ==
    /\ "fn" \in G => fn_call = <<"none">> /\ fn_result = <<>>
    /\ "manifest" \in G =>
           yml = <<>> /\ _directories = {} /\ last_save = NoSave /\ runs = 0
    /\ "wait" \in G =>
           queue_file = <<>> /\ wpc = <<>> /\ position = <<>> /\ queue = <<>>
    /\ "class" \in G =>
           /\ fs = {} /\ mangas = <<>> /\ all = NoDict /\ errlog = {}
           /\ args = [dry |-> FALSE]
    /\ "work" \in G =>
           /\ manifest = <<>> /\ listing = <<>> /\ faults = 0
           /\ srcs = <<>> /\ dsts = <<>>
           /\ pc = "idle" /\ si = 0 /\ dst = 0
           /\ missing = {} /\ copy_fails = NoDict
           /\ fails = NoDict /\ shared = FALSE /\ todo_nums = {} /\ todo = {} /\ count = 0
           /\ attempts = {} /\ matched = NoDict /\ synced = NoDict /\ cut = {}
           /\ reported = NoDict
dict_set(d, k, v) == [q \in DOMAIN d \cup {k} |-> IF q = k THEN v ELSE d[q]]

\* get_args: the Namespace; has_source is FALSE when -s is not given (source
\* is None), dest_is_path is FALSE when -d is given (dest is a str)
Args(overwrite, dry, full_sync, volume, filter, dest_is_path, has_source) ==
    [overwrite |-> overwrite, dry |-> dry, full_sync |-> full_sync, volume |-> volume,
     create |-> TRUE, give_up |-> GiveUpDefault, filter |-> filter,
     file_filter |-> DEFAULT_FILTER, dest_is_path |-> dest_is_path,
     has_source |-> has_source]

InitRest ==
    /\ mangas = <<>> /\ all = NoDict /\ errlog = {}
    /\ srcs = <<>> /\ dsts = <<>>
    /\ pc = "read_source" /\ si = 0 /\ dst = 0
    /\ missing = {} /\ copy_fails = NoDict
    /\ fails = NoDict /\ shared = FALSE /\ todo_nums = {} /\ todo = {} /\ count = 0
    /\ attempts = {} /\ matched = NoDict /\ synced = NoDict /\ cut = {}
    /\ reported = NoDict

\* one destination series and a source rich in chapters, left alone by the
\* environment; at most MaxOptions of -O, --volume and -f are given
InitEngine ==
    \E n \in 0..MaxDup, S \in SUBSET ExtraEntries, T \in SUBSET DestEntries,
       opts \in SUBSET {"-O", "--volume", "-f"} :
        /\ Cardinality(S) <= MaxExtra /\ Cardinality(T) <= MaxDest
        /\ Cardinality(opts) <= MaxOptions
        /\ fs = SeriesDir(SRC, "Alpha", {<<DupNames[i], TRUE>> : i \in 1..n} \cup S)
                  \cup SeriesDir(SRC, "Beta", BetaEntries)
                  \cup SeriesDir(DST, "Alpha", T)
        /\ args = Args("-O" \in opts, FALSE, FALSE, "--volume" \in opts,
                       IF "-f" \in opts THEN "c4.*" ELSE DEFAULT_FILTER, TRUE, TRUE)
        /\ manifest = <<[path |-> "Alpha", name |-> "", aliases |-> {}, disabled |-> FALSE]>>
        /\ listing = (SRC :> <<"Alpha", "Beta">>)
        /\ faults = MaxFaults

\* small sources, the destinations a manifest can list, and an environment
\* that interferes; -n, --full_sync and -d may be given, -s may be left out
InitCatalog ==
    \E man \in UNION {[1..n -> ManifestEntries] : n \in 1..MaxManifest},
       dry \in BOOLEAN, full \in BOOLEAN, dip \in BOOLEAN, hs \in BOOLEAN :
        /\ fs = SeriesDir(SRC, "Alpha", {<<"c1.zip", TRUE>>, <<"Alpha c2.zip", TRUE>>})
                  \cup SeriesDir(SRC, "Beta", BetaEntries)
                  \cup UNION {SeriesDir(DST, man[i].path, {<<"c015.0.zip", TRUE>>}) :
                                 i \in 1..Len(man)}
        /\ args = Args(FALSE, dry, full, FALSE, DEFAULT_FILTER, dip, hs)
        /\ manifest = man
        /\ listing = (SRC :> <<"Alpha", "Beta">>)
        /\ faults = 0

\* a source with chapter directories of loose pages
InitPages ==
    \E P \in SUBSET PageDirs, T \in SUBSET {<<"c007.0.cbz", TRUE>>}, ow \in BOOLEAN :
        /\ fs = SeriesDir(SRC, "Alpha", {<<"c1.zip", TRUE>>} \cup P)
                  \cup SeriesDir(SRC, "Beta", BetaEntries)
                  \cup SeriesDir(DST, "Alpha", T)
        /\ args = Args(ow, FALSE, FALSE, FALSE, DEFAULT_FILTER, TRUE, TRUE)
        /\ manifest = <<[path |-> "Alpha", name |-> "", aliases |-> {}, disabled |-> FALSE]>>
        /\ listing = (SRC :> <<"Alpha", "Beta">>)
        /\ faults = 0

Init ==
    (InitEngine \/ InitCatalog \/ InitPages) /\ InitRest /\ Idle({"fn", "manifest", "wait"})

World == [fs |-> fs, mangas |-> mangas, all |-> all, errlog |-> errlog, ret |-> 0]

\* work(): srcs = read(source, load_metadata=False); read returns [] for
\* the source None and raises RuntimeError when it finds nothing
work_read_source ==
    /\ pc = "read_source"
    /\ \E r \in {IF args.has_source
                  THEN read_source(World, SRC, listing, re_compile(args.file_filter))
                  ELSE [w |-> World, list |-> <<>>]} :
           /\ fs' = r.w.fs /\ mangas' = r.w.mangas /\ all' = r.w.all
           /\ errlog' = r.w.errlog
           /\ srcs' = r.list
           /\ pc' = IF args.has_source /\ r.list = <<>> THEN "crashed" ELSE "read_dest"
    /\ UNCHANGED <<args, manifest, listing, dsts, si, dst, missing, copy_fails, fails,
                   shared, todo_nums, todo, count, attempts, matched, synced, cut,
                   reported, faults>>
    /\ UNCHANGED others

\* work(): dsts = read(dest); every directory of the destination root is
\* listed in its directory.yml
work_read_dest ==
    /\ pc = "read_dest"
    /\ \E r \in {load_directory(World, DST, manifest, re_compile(args.file_filter), <<>>)} :
           /\ fs' = r.w.fs /\ mangas' = r.w.mangas /\ all' = r.w.all
           /\ errlog' = r.w.errlog
           /\ dsts' = r.list
           /\ pc' = IF r.list = <<>> THEN "crashed" ELSE "do_sync"
           /\ si' = 1
    /\ UNCHANGED <<args, manifest, listing, srcs, dst, missing, copy_fails, fails,
                   shared, todo_nums, todo, count, attempts, matched, synced, cut,
                   reported, faults>>
    /\ UNCHANGED others

\* list.index: the first position of ds whose Manga equals the source named
\* `name` (Manga.__eq__ of the element), 0 when it raises ValueError
index_last(ms, ds, name) ==
    LET hits == {j \in 1..Len(ds) : Manga_eq(ms[ds[j]], name)}
    IN  IF hits = {} THEN 0 ELSE SetMax(hits)
index(ms, ds, name) ==
    LET hits == {j \in 1..Len(ds) : Manga_eq(ms[ds[j]], name)}
    IN  IF hits = {} THEN 0 ELSE SetMin(hits)

\* _to_cbz and zip_path: the target exists and overwrite is not enabled
conflict_never(f, a, dst_dir, target) == FALSE
conflict(f, a, dst_dir, target) == path_exists(f, dst_dir, target) /\ ~a.overwrite

\* Manga.sync._to_cbz(chapter, dst) on the file system f: what it raises or
\* does, and the file system it leaves
_to_cbz(f, a, chapter, dst_dir) ==
    LET c_dir == chapter.path[1]
        c_name == chapter.path[2]
        is_file == path_is_file(f, c_dir, c_name)
        is_dir == path_is_dir(f, c_dir, c_name)
        target == Chapter_str(chapter, a.volume) \o "." \o
                      (IF is_file THEN suffix_of(c_name) ELSE "cbz")
        written == Entry(dst_dir, target, "file",
                         <<IF is_file THEN "copy" ELSE "zip", c_dir, c_name>>)
    IN  IF ~is_file /\ ~is_dir THEN [outcome |-> "nothing", fs |-> f]
        ELSE IF conflict(f, a, dst_dir, target)
             THEN [outcome |-> "FileExistsError", fs |-> f]
        ELSE IF ~dir_exists(f, dst_dir)
             THEN [outcome |-> "FileNotFoundError", fs |-> f]
        ELSE IF ~path_is_dir(f, parent_of(dst_dir), name_of(dst_dir))
             THEN [outcome |-> "NotADirectoryError", fs |-> f]
        ELSE [outcome |-> IF is_file THEN "copied" ELSE "zipped",
              fs |-> (f \ At(f, dst_dir, target)) \cup {written}]

\* Manga.sync: the loop over the missing chapters is left after `outcome`
\* with `failures` the failures dict
loop_break_late(outcome, failures, a) ==
    outcome = "FileNotFoundError" \/ Cardinality(DOMAIN failures) > a.give_up + 1
loop_break_soft(outcome, failures, a) ==
    Cardinality(DOMAIN failures) > a.give_up
loop_break(outcome, failures, a) ==
    outcome = "FileNotFoundError" \/ Cardinality(DOMAIN failures) > a.give_up

\* do_sync (`if not _args.dry and dst`): src.sync(dst) is called for the
\* destination d; _wet calls it whether --dry is given or not
sync_guard_wet(a, d) == d /= 0
sync_guard(a, d) == ~a.dry /\ d /= 0

\* do_sync: one pass of `for src in srcs`, up to the first chapter of src.sync
do_sync_src ==
    /\ pc = "do_sync" /\ si <= Len(srcs)
    /\ \E j \in {index(mangas, dsts, mangas[srcs[si]].name)} :
       LET src == mangas[srcs[si]]
           found == j > 0
           covered == found /\ ~args.full_sync
                         /\ Manga_missing(mangas[dsts[j]], DOMAIN src.chapters) = {}
           crash == ~found /\ args.create /\ ~args.dest_is_path
       IN
       \E w \in {IF ~found /\ args.create /\ ~crash
                 THEN Manga_init(World, joinpath(DST, src.name), "", {}, FALSE,
                                 re_compile(args.file_filter), {})
                 ELSE World} :
       LET d == IF found THEN dsts[j] ELSE w.ret
           call == ~covered /\ ~crash /\ sync_guard(args, d)
           nums == IF call /\ ~w.mangas[d].disabled
                   THEN Manga_missing(w.mangas[d], DOMAIN src.chapters) ELSE {}
           enter == nums /= {}
       IN  /\ matched' = dict_set(matched, si, IF found THEN dsts[j] ELSE 0)
           /\ synced' = IF call THEN dict_set(synced, si, d) ELSE synced
           /\ missing' = IF found THEN missing ELSE missing \cup {src.name}
           /\ fs' = w.fs /\ mangas' = w.mangas /\ all' = w.all /\ errlog' = w.errlog
           /\ pc' = IF crash THEN "crashed" ELSE IF enter THEN "sync" ELSE "do_sync"
           /\ si' = IF crash \/ enter THEN si ELSE si + 1
           /\ dst' = IF enter THEN d ELSE 0
           /\ shared' = (enter /\ copy_fails /= NoDict)
           /\ fails' = IF enter THEN copy_fails ELSE NoDict
           /\ todo_nums' = nums
    /\ todo' = {} /\ count' = 0
    /\ UNCHANGED <<args, manifest, listing, srcs, dsts, copy_fails, attempts, cut,
                   reported, faults>>
    /\ UNCHANGED others

\* Manga.sync: one pass of `for miss in missing`; the list is the chapters of
\* each missing number, numbers and chapters in the order of their sets
sync_miss ==
    /\ pc = "sync"
    /\ \E m \in (IF todo = {} THEN todo_nums ELSE {-1}) :
         LET src == mangas[srcs[si]]
             pool == IF todo = {} THEN src.chapters[m] ELSE todo
         IN  \E miss \in pool :
               \E skipped \in {filter_fullmatch(args.filter, miss.path[2])},
                  r \in {_to_cbz(fs, args, miss, mangas[dst].path)} :
               LET rest == pool \ {miss}
                   nums == IF todo = {} THEN todo_nums \ {m} ELSE todo_nums
                   caught == ~skipped /\ r.outcome \in {"FileExistsError", "FileNotFoundError"}
                   raised == ~skipped /\ r.outcome = "NotADirectoryError"
                   \* the key of the failures dict is the Chapter object
                   fails1 == IF caught
                             THEN dict_set(fails, <<"chapter", miss.path[1], miss.path[2]>>,
                                           r.outcome)
                             ELSE fails
                   seen == IF shared THEN fails1 ELSE copy_fails
                   break == ~skipped /\ loop_break(r.outcome, fails1, args)
                   return == raised \/ break \/ (rest = {} /\ nums = {})
               IN  /\ fs' = IF skipped THEN fs ELSE r.fs
                   /\ attempts' = IF skipped THEN attempts
                                  ELSE attempts \cup {[src |-> si, path |-> miss.path,
                                                       outcome |-> r.outcome]}
                   /\ copy_fails' = IF raised
                                    THEN dict_set(seen, <<"series", <<>>, src.name>>, r.outcome)
                                    ELSE seen
                   /\ fails' = IF return THEN NoDict ELSE fails1
                   /\ shared' = (shared /\ ~return)
                   /\ todo' = IF return THEN {} ELSE rest
                   /\ todo_nums' = IF return THEN {} ELSE nums
                   /\ count' = IF return THEN 0
                               ELSE IF skipped \/ caught THEN count ELSE count + 1
                   /\ pc' = IF return THEN "do_sync" ELSE "sync"
                   /\ si' = IF return THEN si + 1 ELSE si
                   /\ dst' = IF return THEN 0 ELSE dst
                   /\ cut' = IF raised \/ break THEN cut \cup {si} ELSE cut
    /\ UNCHANGED <<args, manifest, listing, mangas, all, errlog, srcs, dsts, missing,
                   matched, synced, reported, faults>>
    /\ UNCHANGED others

\* the chapters Manga.sync has still to reach
pending ==
    IF pc /= "sync" THEN {}
    ELSE todo \cup UNION {mangas[srcs[si]].chapters[n] : n \in todo_nums}

\* while a series is synced, another process removes a chapter of the source
\* not reached yet, or removes the destination directory, or puts a file in
\* its place
env_fault ==
    /\ pc = "sync" /\ faults < MaxFaults
    /\ LET d == mangas[dst].path
           without == {e \in fs : e.dir /= d /\ ~(e.dir = parent_of(d) /\ e.name = name_of(d))}
       IN  \/ \E c \in pending : /\ path_exists(fs, c.path[1], c.path[2])
                                 /\ fs' = fs \ At(fs, c.path[1], c.path[2])
           \/ /\ dir_exists(fs, d)
              /\ fs' \in {without,
                          without \cup {Entry(parent_of(d), name_of(d), "file",
                                              <<"made", parent_of(d), name_of(d)>>)}}
    /\ faults' = faults + 1
    /\ UNCHANGED <<args, manifest, listing, mangas, all, errlog, srcs, dsts, pc, si, dst,
                   missing, copy_fails, fails, shared, todo_nums, todo, count, attempts,
                   matched, synced, cut, reported>>
    /\ UNCHANGED others

\* work(): do_sync has returned; Manga.save_directories(dest) saves the
\* manifest that was loaded, and the failures are reported
work_report ==
    /\ pc = "do_sync" /\ si > Len(srcs)
    /\ \E ids \in {directory(World, DST)} :
           manifest' = IF args.dry THEN manifest
                       ELSE [i \in 1..Len(ids) |-> asDict(mangas[ids[i]])]
    /\ reported' = copy_fails
    /\ pc' = "done"
    /\ UNCHANGED <<fs, args, listing, mangas, all, errlog, srcs, dsts, si, dst,
                   missing, copy_fails, fails, shared, todo_nums, todo, count, attempts,
                   matched, synced, cut, faults>>
    /\ UNCHANGED others

Next ==
    \/ work_read_source
    \/ work_read_dest
    \/ do_sync_src
    \/ sync_miss
    \/ env_fault
    \/ work_report

Spec == Init /\ [][Next]_<<vars, others>>

(***************************************************************************)
(* The scan of a source tree: read(source) of work() on a root that holds  *)
(* loose archives and images, the series directory Alpha with archives,    *)
(* images and the chapter directory c7 of loose pages, and the series      *)
(* directory Beta.  scandir lists a directory in an order of its own: the  *)
(* archives before the images or after them, Alpha before Beta or after.   *)
(***************************************************************************)
MaxImages == 4

InitScan ==
    \E a \in 0..MaxDup, i \in 0..MaxImages, j \in {0, MaxImages}, ri \in {0, MaxImages},
       ra \in 0..1, beta \in BOOLEAN, images_first \in BOOLEAN, reverse \in BOOLEAN :
        LET Alpha == joinpath(SRC, "Alpha")
            pages(n) == [k \in 1..n |-> "p" \o int_to_str(k) \o ".jpg"]
            files(A, I) == IF images_first THEN I \o A ELSE A \o I
            dirs == IF ~beta THEN <<"Alpha">>
                    ELSE IF reverse THEN <<"Beta", "Alpha">> ELSE <<"Alpha", "Beta">>
            ls == (SRC :> dirs \o files([k \in 1..ra |-> "c1.zip"], pages(ri)))
                    @@ (Alpha :> <<"c7">> \o files([k \in 1..a |-> DupNames[k]], pages(i)))
                    @@ (joinpath(Alpha, "c7") :> pages(j))
        IN  /\ listing = ls
            /\ fs = {Orig(parent_of(SRC), name_of(SRC), "dir")}
                      \cup (IF beta THEN SeriesDir(SRC, "Beta", BetaEntries) ELSE {})
                      \cup UNION {{Orig(d, ls[d][k], IF ls[d][k] \in {"Alpha", "Beta", "c7"}
                                                     THEN "dir" ELSE "file") :
                                       k \in 1..Len(ls[d])} : d \in DOMAIN ls}
    /\ args = Args(FALSE, FALSE, FALSE, FALSE, DEFAULT_FILTER, TRUE, TRUE)
    /\ manifest = <<>> /\ faults = 0
    /\ InitRest /\ Idle({"fn", "manifest", "wait"})

NextScan == work_read_source

SpecScan == InitScan /\ [][NextScan]_<<vars, others>>

(***************************************************************************)
(* The functions of ssync.py on their own: a behaviour is one call, drawn  *)
(* in the initial state, and its return.                                   *)
(***************************************************************************)
\* chapter numbers with at most one decimal digit, in tenths
MaxWhole == 4
MaxFrac == 4
MaxEnds == 2
Numbers == {10 * a + b : a \in 0..MaxWhole, b \in 0..MaxFrac}
NonDecreasing(q) == \A i \in 1..(Len(q) - 1) : q[i] <= q[i + 1]

\* a call of ranges with a start and at most MaxEnds ends that do not
\* decrease; of bookends with a set of whole numbers from 0 to MaxBook and
\* of some with a fraction; of Chapter.build with a name of the pool under
\* a series, or with a name whose chapter marker is a range
MaxBook == 5
InitFn ==
    /\ Idle({"class", "work", "manifest", "wait"})
    /\ fn_result = <<>>
    /\ \/ \E a \in Numbers, q \in UNION {[1..n -> Numbers] : n \in 0..MaxEnds} :
              NonDecreasing(q) /\ fn_call = <<"ranges", a, q>>
       \/ \E S \in SUBSET ({10 * a : a \in 0..MaxBook} \cup {5, 15, 41, 42}) :
              fn_call = <<"bookends", S>>
       \/ \E b \in (SeriesNames \X (PoolEntries \cup TargetEntries))
                     \cup {<<"My Title", <<"My Title - c012-014.zip", TRUE>>>>,
                           <<"Alpha", <<"c2-4.zip", TRUE>>>>} :
              fn_call = <<"build", b[1], b[2][1], b[2][2]>>

\* list(ranges(start, *ends))
ranges_apply ==
    /\ fn_call[1] = "ranges" /\ fn_result = <<>>
    /\ fn_result' = <<ranges(fn_call[2], fn_call[3])>>
    /\ UNCHANGED <<fn_call, vars, yml, _directories, last_save, runs,
                   queue_file, wpc, position, queue>>

\* bookends(nums)
bookends_apply ==
    /\ fn_call[1] = "bookends" /\ fn_result = <<>>
    /\ fn_result' = <<bookends(fn_call[2])>>
    /\ UNCHANGED <<fn_call, vars, yml, _directories, last_save, runs,
                   queue_file, wpc, position, queue>>

\* Chapter.build(manga, path): the parts found in the name, and the Chapter
\* or the ValueError
build_apply ==
    /\ fn_call[1] = "build" /\ fn_result = <<>>
    /\ fn_result' = <<[parts |-> Chapter_parts(fn_call[2], fn_call[3], fn_call[4]),
                       r |-> Chapter_build(fn_call[2], <<"S", fn_call[2]>>,
                                           fn_call[3], fn_call[4])]>>
    /\ UNCHANGED <<fn_call, vars, yml, _directories, last_save, runs,
                   queue_file, wpc, position, queue>>

NextFn ==
    \/ ranges_apply
    \/ bookends_apply
    \/ build_apply

SpecFn == InitFn /\ [][NextFn]_<<vars, others>>

(***************************************************************************)
(* The directory manifests: calls of Manga.load_directory and              *)
(* Manga.save_directory in any order, over runs of the program.  The       *)
(* manifests stay on disk from one run to the next; Manga.all and          *)
(* Manga._directories begin empty in every run.                            *)
(***************************************************************************)
MaxObjects == 4
MaxRuns == 2

\* the series directories, and the manifests written by hand that the two
\* directories may hold before the first run
InitManifest ==
    /\ Idle({"work", "fn", "wait"})
    /\ fs = SeriesDir(DST, "Alpha", {<<"c1.zip", TRUE>>}) \cup SeriesDir(DST, "Beta", {})
               \cup SeriesDir(<<"E">>, "Aka", {})
    /\ mangas = <<>> /\ all = NoDict /\ errlog = {}
    /\ \E dry \in BOOLEAN :
           args = Args(FALSE, dry, FALSE, FALSE, DEFAULT_FILTER, TRUE, TRUE)
    /\ \E d1 \in {<<>>,
                   << <<[path |-> "Alpha", name |-> "", aliases |-> {}, disabled |-> FALSE,
                         seasons |-> {}]>> >>,
                   << <<[path |-> "Alpha", name |-> "Second", aliases |-> {"alpha"},
                         disabled |-> TRUE, seasons |-> {<<"S2", <<"int", "2">>>>}],
                        [path |-> "Beta", name |-> "", aliases |-> {}, disabled |-> FALSE,
                         seasons |-> {<<"Part", <<"str", "II">>>>}]>> >>},
            d2 \in {<<>>,
                   << <<[path |-> "Aka", name |-> "", aliases |-> {"alpha"}, disabled |-> FALSE,
                         seasons |-> {}]>> >>} :
           yml = [d \in {DST, <<"E">>} |-> IF d = DST THEN d1 ELSE d2]
    /\ _directories = {} /\ last_save = NoSave /\ runs = 0

\* Manga.load_directory(d) of a directory whose directory.yml exists
Manga_load_directory ==
    \E d \in DOMAIN yml :
        /\ yml[d] /= <<>>
        /\ Len(mangas) + Len(yml[d][1]) <= MaxObjects
        /\ \E r \in {load_directory(World, d, yml[d][1], re_compile(args.file_filter), <<>>)} :
               /\ fs' = r.w.fs /\ mangas' = r.w.mangas /\ all' = r.w.all
               /\ errlog' = r.w.errlog
        /\ _directories' = _directories \cup {d}
        /\ UNCHANGED <<args, yml, last_save, runs>>
        /\ UNCHANGED <<manifest, listing, srcs, dsts, pc, si, dst, missing, copy_fails,
                       fails, shared, todo_nums, todo, count, attempts, matched, synced,
                       cut, reported, faults>>
        /\ UNCHANGED <<fn_call, fn_result, queue_file, wpc, position, queue>>

\* Manga.save_directory(d)
Manga_save_directory ==
    \E d \in DOMAIN yml :
        \E ids \in {directory(World, d)} :
        LET refused == never_loaded(yml, _directories, d)
            _directory == [i \in 1..Len(ids) |-> asDict(mangas[ids[i]])]
            wrote == ~refused /\ ~args.dry
        IN  /\ yml' = IF wrote THEN [yml EXCEPT ![d] = <<_directory>>] ELSE yml
            /\ last_save' = [path |-> d, existed |-> yml[d] /= <<>>,
                             loaded |-> d \in _directories, wrote |-> wrote,
                             ret |-> IF refused THEN 0 ELSE Len(ids),
                             before |-> yml[d],
                             after |-> IF wrote THEN <<_directory>> ELSE yml[d],
                             objs |-> [i \in 1..Len(ids) |-> mangas[ids[i]]]]
            /\ UNCHANGED <<fs, args, mangas, all, errlog, _directories, runs>>
            /\ UNCHANGED <<manifest, listing, srcs, dsts, pc, si, dst, missing,
                           copy_fails, fails, shared, todo_nums, todo, count, attempts,
                           matched, synced, cut, reported, faults>>
            /\ UNCHANGED <<fn_call, fn_result, queue_file, wpc, position, queue>>

\* the program ends and is run again
new_run ==
    /\ runs < MaxRuns
    /\ mangas /= <<>> \/ _directories /= {}
    /\ runs' = runs + 1
    /\ mangas' = <<>> /\ all' = NoDict /\ errlog' = {} /\ _directories' = {}
    /\ UNCHANGED <<fs, args, yml, last_save>>
    /\ UNCHANGED <<manifest, listing, srcs, dsts, pc, si, dst, missing, copy_fails,
                   fails, shared, todo_nums, todo, count, attempts, matched, synced,
                   cut, reported, faults>>
    /\ UNCHANGED <<fn_call, fn_result, queue_file, wpc, position, queue>>

NextManifest ==
    \/ Manga_load_directory
    \/ Manga_save_directory
    \/ new_run

SpecManifest == InitManifest /\ [][NextManifest]_<<vars, others>>

(***************************************************************************)
(* wait.py.  Each of the processes 1..NProcs is a shell that runs wait.py  *)
(* and, when wait.py has ended with status 0, its workload; the number of  *)
(* the process is the PPID wait.py sees.  A process stands at              *)
(*   "start"     before wait.py,                                           *)
(*   "create"    in wait_idle_queue, having found no queue file,           *)
(*   "add"       in wait_idle_queue, having found the queue file,          *)
(*   "far"       in the loop `while position > 1`,                         *)
(*   "watch"     in the loop `while position == 1`,                        *)
(*   "crashed"   after an exception ended wait.py,                         *)
(*   "asserted"  after the assert of remove_process ended wait.py,         *)
(*   "released"  after wait_idle_queue returned and wait.py ended,         *)
(*   "running"   in its workload, and "done" after it.                     *)
(* A shell whose wait.py or workload has ended may run wait.py again.      *)
(* The calls under open_locked_file are atomic; the test for the file and  *)
(* the write that follows it hold no lock and are two steps.               *)
(***************************************************************************)
NProcs == 3

InitWait ==
    /\ Idle({"class", "work", "fn", "manifest"})
    /\ queue_file = <<>>
    /\ wpc = [p \in 1..NProcs |-> "start"]
    /\ position = [p \in 1..NProcs |-> -1]
    /\ queue = [p \in 1..NProcs |-> <<>>]

\* wait_idle_queue: if not queue_file.exists()
wait_exists ==
    \E p \in 1..NProcs :
        /\ wpc[p] = "start"
        /\ wpc' = [wpc EXCEPT ![p] = IF queue_file = <<>> THEN "create" ELSE "add"]
        /\ UNCHANGED <<queue_file, position, queue>>
        /\ UNCHANGED <<vars, fn_call, fn_result, yml, _directories, last_save, runs>>

\* wait_idle_queue: queue = [PPID,]; queue_file.write_bytes(...); position = 0,
\* after which no loop is entered and wait_idle_queue returns
wait_create ==
    \E p \in 1..NProcs :
        /\ wpc[p] = "create"
        /\ queue_file' = << <<p>> >>
        /\ queue' = [queue EXCEPT ![p] = <<p>>]
        /\ position' = [position EXCEPT ![p] = 0]
        /\ wpc' = [wpc EXCEPT ![p] = "released"]
        /\ UNCHANGED <<vars, fn_call, fn_result, yml, _directories, last_save, runs>>

\* add_to_queue(queue_file, PPID), and the tests of the two loops
add_to_queue ==
    \E p \in 1..NProcs :
        /\ wpc[p] = "add"
        /\ LET old == queue_file[1]
               at == {i \in 1..Len(old) : old[i] = p}
               new == IF at = {} THEN Append(old, p) ELSE old
               pos == IF at = {} THEN Len(old) ELSE SetMin(at) - 1
           IN  /\ queue_file' = <<new>>
               /\ queue' = [queue EXCEPT ![p] = new]
               /\ position' = [position EXCEPT ![p] = pos]
               /\ wpc' = [wpc EXCEPT ![p] = IF pos > 1 THEN "far"
                                           ELSE IF pos = 1 THEN "watch" ELSE "released"]
        /\ UNCHANGED <<vars, fn_call, fn_result, yml, _directories, last_save, runs>>

\* while position > 1: queue_position(PPID) lacks an argument, a TypeError
wait_far ==
    \E p \in 1..NProcs :
        /\ wpc[p] = "far"
        /\ wpc' = [wpc EXCEPT ![p] = "crashed"]
        /\ UNCHANGED <<queue_file, position, queue>>
        /\ UNCHANGED <<vars, fn_call, fn_result, yml, _directories, last_save, runs>>

\* while position == 1: the process queue[0] has no children (neither its
\* wait.py nor its workload runs), so remove_process(queue_file, queue[0])
\* and position = queue.index(PPID); the ValueError of an index() that
\* finds nothing ends wait.py, and so does the assert of remove_process
wait_watch ==
    \E p \in 1..NProcs :
        /\ wpc[p] = "watch"
        /\ wpc[queue[p][1]] \notin {"create", "add", "far", "watch", "running"}
        /\ LET old == queue_file[1]
               ndx == {i \in 1..Len(old) : old[i] = queue[p][1]}
               ok == ndx /= {} /\ SetMin(ndx) = 1
               new == IF ok THEN Tail(old) ELSE old
               at == {i \in 1..Len(new) : new[i] = p}
           IN  /\ queue_file' = <<new>>
               /\ IF ok /\ at /= {}
                  THEN /\ queue' = [queue EXCEPT ![p] = new]
                       /\ position' = [position EXCEPT ![p] = SetMin(at) - 1]
                       /\ wpc' = [wpc EXCEPT ![p] = "released"]
                  ELSE /\ wpc' = [wpc EXCEPT ![p] = IF ndx /= {} /\ ~ok THEN "asserted"
                                                   ELSE "crashed"]
                       /\ UNCHANGED <<position, queue>>
        /\ UNCHANGED <<vars, fn_call, fn_result, yml, _directories, last_save, runs>>

\* the shell starts the workload after wait.py, and the workload ends
workload ==
    \E p \in 1..NProcs :
        /\ wpc[p] \in {"released", "running"}
        /\ wpc' = [wpc EXCEPT ![p] = IF wpc[p] = "released" THEN "running" ELSE "done"]
        /\ UNCHANGED <<queue_file, position, queue>>
        /\ UNCHANGED <<vars, fn_call, fn_result, yml, _directories, last_save, runs>>

\* the shell whose wait.py or workload has ended runs wait.py once more
wait_again ==
    \E p \in 1..NProcs :
        /\ wpc[p] \in {"crashed", "asserted", "done"}
        /\ wpc' = [wpc EXCEPT ![p] = "start"]
        /\ UNCHANGED <<queue_file, position, queue>>
        /\ UNCHANGED <<vars, fn_call, fn_result, yml, _directories, last_save, runs>>

NextWait ==
    \/ wait_exists
    \/ wait_create
    \/ add_to_queue
    \/ wait_far
    \/ wait_watch
    \/ workload
    \/ wait_again

SpecWait == InitWait /\ [][NextWait]_<<vars, others>>

\* The operating system schedules every process: a wait.py that can take
\* its next step takes it, and a workload that was started ends.  A shell
\* need not run wait.py again.
SpecWaitFair ==
    /\ SpecWait
    /\ \A p \in 1..NProcs :
           WF_<<vars, others>>(/\ wait_exists \/ wait_create \/ add_to_queue
                                  \/ wait_far \/ wait_watch \/ workload
                               /\ wpc'[p] /= wpc[p])

(***************************************************************************)
(* What the run did, read off the history                                  *)
(***************************************************************************)
AttemptsOf(i) == {t \in attempts : t.src = i}
Attempted(i) == {t.path : t \in AttemptsOf(i)}
Conflicts(i) == {t \in AttemptsOf(i) : t.outcome = "FileExistsError"}
Returned(i) == si > i \/ pc = "done"
ChaptersOf(m) == UNION {m.chapters[n] : n \in DOMAIN m.chapters}

\* the chapters of source i with a number its destination lacks, and those
\* of them the -f pattern lets through
Lacking(i) ==
    LET src == mangas[srcs[i]]
        nums == DOMAIN src.chapters \ DOMAIN mangas[synced[i]].chapters
    IN  {c \in ChaptersOf(src) : c.numbers \cap nums /= {}}
Candidates(i) ==
    {c.path : c \in {q \in Lacking(i) : ~filter_fullmatch(args.filter, q.path[2])}}

SyncedPairs == {i \in DOMAIN synced : ~mangas[synced[i]].disabled}

\* C1 (as amended): in every sync of a pair whose destination is not
\* disabled, each chapter attempted carries a number the destination lacks
\* and does not match the -f pattern; when the sync has returned without
\* leaving its loop early, the chapters attempted are exactly those.
C1_AttemptedAreTheMissing ==
    \A i \in SyncedPairs :
        /\ Attempted(i) \subseteq Candidates(i)
        /\ (Returned(i) /\ i \notin cut) => Attempted(i) = Candidates(i)

\* C1 witness: a sync has returned having attempted all its candidates, and
\* left alone a source chapter whose number the destination holds
C1_Witness ==
    \E i \in SyncedPairs :
        /\ Returned(i) /\ i \notin cut /\ Attempted(i) /= {}
        /\ \E c \in ChaptersOf(mangas[srcs[i]]) :
               c.numbers \subseteq DOMAIN mangas[synced[i]].chapters

\* C1 as the claim states it: once a sync has returned, the chapters it
\* attempted are exactly the candidates
C1_AttemptedExactly ==
    \A i \in SyncedPairs : Returned(i) => Attempted(i) = Candidates(i)

\* the numbers a fresh run finds in directory dir for the series `name`
Rescan(dir, name) ==
    UNION {c.numbers : c \in _find_chapters(FALSE, fs, dir, name,
                                           re_compile(args.file_filter)).chapters}

\* C2: after a run in which every chapter a pair lacked was copied, a fresh
\* run, scanning source and destination again, finds no number missing
C2_RerunFindsNothingMissing ==
    pc = "done" =>
        \A i \in SyncedPairs :
            (/\ \A c \in Lacking(i) : \E t \in AttemptsOf(i) :
                    t.path = c.path /\ t.outcome \in {"copied", "zipped"}
             /\ \A t \in AttemptsOf(i) :
                    t.outcome \notin {"FileExistsError", "FileNotFoundError"})
                => Rescan(mangas[srcs[i]].path, mangas[srcs[i]].name)
                     \ Rescan(mangas[synced[i]].path, mangas[synced[i]].name) = {}

\* C3 (as amended): once more than give_up chapters of a series have failed
\* with a conflict, no further chapter of that series is attempted
C3_NoAttemptPastGiveUp ==
    [][\A i \in DOMAIN synced :
          Cardinality(Conflicts(i)) > args.give_up => AttemptsOf(i)' = AttemptsOf(i)]_vars

\* C3 witness: a series has give_up + 1 conflicts, the last of them met after
\* give_up conflicts, and a candidate chapter that was never attempted
C3_Witness ==
    \E i \in SyncedPairs :
        /\ Returned(i) /\ Cardinality(Conflicts(i)) = args.give_up + 1
        /\ Candidates(i) \ Attempted(i) /= {}

\* C3 as the claim states it: once give_up chapters of a series have failed
\* with a conflict, no further chapter of that series is attempted
C3_NoAttemptAtGiveUp ==
    [][\A i \in DOMAIN synced :
          Cardinality(Conflicts(i)) >= args.give_up => AttemptsOf(i)' = AttemptsOf(i)]_vars

\* the name _to_cbz gives the copy of the chapter at path p of the source
TargetOf(p) ==
    LET c == CHOOSE q \in ChaptersOf(mangas[srcs[si]]) : q.path = p
    IN  Chapter_str(c, args.volume) \o "." \o
            (IF path_is_file(fs, p[1], p[2]) THEN suffix_of(p[2]) ELSE "cbz")

\* C4: without overwrite, a step of sync leaves every entry of the
\* destination directory as it is, and when the target name of the chapter
\* it attempts exists the attempt ends in a conflict
C4_ExistingTargetKept ==
    [][(pc = "sync" /\ ~args.overwrite /\ attempts' /= attempts) =>
          /\ \A e \in fs : e.dir = mangas[dst].path => e \in fs'
          /\ \A t \in attempts' \ attempts :
                (path_exists(fs, t.path[1], t.path[2])
                   /\ path_exists(fs, mangas[dst].path, TargetOf(t.path)))
                    => t.outcome = "FileExistsError"]_vars

\* C4 witness: without overwrite, a directory of pages was zipped into the
\* destination and the attempt on a second directory of the same number
\* ended in a conflict, the archive of the first still being there
C4_Witness ==
    /\ ~args.overwrite
    /\ \E t \in attempts, u \in attempts :
          /\ t.src = u.src
          /\ t.outcome = "zipped"
          /\ u.outcome = "FileExistsError" /\ path_is_dir(fs, u.path[1], u.path[2])
          /\ \E e \in fs : /\ e.dir = mangas[synced[t.src]].path
                           /\ e.data = <<"zip", t.path[1], t.path[2]>>

\* C5: at the end of the run every chapter whose copy failed is in the
\* failures the run reports
C5_FailuresReported ==
    pc = "done" =>
        \A t \in attempts :
            t.outcome \in {"FileExistsError", "FileNotFoundError"}
                => <<"chapter", t.path[1], t.path[2]>> \in DOMAIN reported

\* C6: once a copy of a series has failed with FileNotFoundError no chapter
\* of that series is attempted any more; the step in which it failed hands
\* the run back to do_sync at the next source, and the run reports only
\* when do_sync has been through every source
C6_NotFoundEndsSeriesOnly ==
    [][/\ \A i \in DOMAIN synced :
             (\E t \in AttemptsOf(i) : t.outcome = "FileNotFoundError")
                 => AttemptsOf(i)' = AttemptsOf(i)
       /\ (\E t \in attempts' \ attempts : t.outcome = "FileNotFoundError")
             => (pc' = "do_sync" /\ si' = si + 1 /\ srcs' = srcs)
       /\ pc' = "done" => DOMAIN matched' = 1..Len(srcs')]_vars

\* C6 witness: a copy of the first source failed with FileNotFoundError
\* while a candidate of that source was still to come, and the second
\* source has been synced since
C6_Witness ==
    /\ \E t \in AttemptsOf(1) : t.outcome = "FileNotFoundError"
    /\ 1 \in SyncedPairs /\ Candidates(1) \ Attempted(1) /= {}
    /\ AttemptsOf(2) /= {}

\* C7: a disabled Series has no chapters, misses nothing of any source, and
\* no chapter is copied into its directory or out of it
C7_DisabledUntouched ==
    \A k \in 1..Len(mangas) :
        mangas[k].disabled =>
            /\ DOMAIN mangas[k].chapters = {}
            /\ \A i \in 1..Len(srcs) :
                   Manga_missing(mangas[k], DOMAIN mangas[srcs[i]].chapters) = {}
            /\ \A t \in attempts :
                   /\ t.path[1] /= mangas[k].path
                   /\ mangas[synced[t.src]].path /= mangas[k].path

\* the positions of dsts whose Manga equals, by name or alias, source i
Matches(i) == {j \in 1..Len(dsts) : Manga_eq(mangas[dsts[j]], mangas[srcs[i]].name)}

\* C8 (as amended): the destination do_sync chooses for a source is the
\* first of dsts, disabled or not, that equals it by name or alias, and the
\* source is reported without destination exactly when none of dsts does
C8_FirstMatchWins ==
    \A i \in DOMAIN matched :
        /\ matched[i] /= 0 =>
              \E j \in Matches(i) : /\ dsts[j] = matched[i]
                                    /\ \A h \in Matches(i) : j <= h
        /\ matched[i] = 0 <=> Matches(i) = {}
        /\ mangas[srcs[i]].name \in missing <=> Matches(i) = {}

\* C8 witness: a source was matched with a disabled destination although a
\* later destination that is not disabled matches it too
C8_Witness ==
    \E i \in DOMAIN matched :
        /\ matched[i] /= 0 /\ mangas[matched[i]].disabled
        /\ \E j \in Matches(i) : ~mangas[dsts[j]].disabled

\* C8 as the claim states it: the destination chosen is the first that is
\* not disabled among those that match, and the source is reported without
\* destination exactly when no such destination exists
C8_FirstEnabledMatchWins ==
    \A i \in DOMAIN matched :
        LET enabled == {j \in Matches(i) : ~mangas[dsts[j]].disabled}
        IN  /\ matched[i] /= 0 =>
                  \E j \in enabled : /\ dsts[j] = matched[i]
                                     /\ \A h \in enabled : j <= h
            /\ matched[i] = 0 <=> enabled = {}
            /\ mangas[srcs[i]].name \in missing <=> enabled = {}

\* C9: a source no destination matches is in the map of missing
\* destinations and, create being set and dry-run not, is synced in the same
\* pass into a Series made at <dest-root>/<source-name>
C9_UnmatchedCreatedAndSynced ==
    \A i \in DOMAIN matched :
        matched[i] = 0 =>
            /\ mangas[srcs[i]].name \in missing
            /\ (args.create /\ ~args.dry) =>
                  /\ i \in DOMAIN synced
                  /\ mangas[synced[i]].path = joinpath(DST, mangas[srcs[i]].name)

\* C10: the catalog holds, for each directory, the first Series that was
\* constructed for it
C10_FirstConstructionStays ==
    \A p \in DOMAIN all :
        \A k \in 1..Len(mangas) : mangas[k].path = p => all[p] <= k

\* C11: when the source the sync requires is missing, the run aborts before
\* any directory is scanned and before any file is copied: no Series has
\* been constructed, no chapter attempted, and work() is at its start or
\* has ended with an error
C11_BadConfigAbortsFirst ==
    ~args.has_source =>
        /\ pc \in {"read_source", "crashed"}
        /\ mangas = <<>>
        /\ attempts = {}

\* C20: while a series is synced, the failures counted against its give-up
\* limit are failures of its own chapters: the count starts at zero and no
\* failure of an earlier series is in it
C20_BudgetPerSeries ==
    pc = "sync" =>
        \A k \in DOMAIN fails :
            k[1] = "chapter" /\ k[2] = mangas[srcs[si]].path

(***************************************************************************)
(* Claims about the functions, checked under SpecFn.                       *)
(***************************************************************************)
\* C12: for a start and ends that do not decrease, the last value ranges
\* produces is the last end, and that end is produced exactly once
C12_LastEndOnce ==
    (/\ fn_call[1] = "ranges" /\ fn_result /= <<>>
     /\ fn_call[3] /= <<>> /\ NonDecreasing(<<fn_call[2]>> \o fn_call[3])) =>
        LET out == fn_result[1].out
            last == fn_call[3][Len(fn_call[3])]
        IN  /\ fn_result[1].ok
            /\ out[Len(out)] = last
            /\ Cardinality({i \in 1..Len(out) : out[i] = last}) = 1

\* C13: for a start and ends that do not decrease, ranges produces its
\* values in strictly increasing order, each between the start and the last
\* end
C13_StrictlyIncreasing ==
    (/\ fn_call[1] = "ranges" /\ fn_result /= <<>>
     /\ fn_call[3] /= <<>> /\ NonDecreasing(<<fn_call[2]>> \o fn_call[3])) =>
        LET out == fn_result[1].out
            last == fn_call[3][Len(fn_call[3])]
        IN  /\ fn_result[1].ok
            /\ \A i \in 1..(Len(out) - 1) : out[i] < out[i + 1]
            /\ \A i \in 1..Len(out) : fn_call[2] <= out[i] /\ out[i] <= last

\* C14: the intervals bookends returns for a set of numbers are sorted and
\* pairwise disjoint, begin and end at numbers of the set, and together
\* hold every number of the set, 0 included
C14_IntervalsCoverInput ==
    (fn_call[1] = "bookends" /\ fn_result /= <<>>) =>
        LET pairs == fn_result[1]
        IN  /\ \A i \in 1..Len(pairs) :
                   /\ pairs[i][1] <= pairs[i][2]
                   /\ pairs[i][1] \in fn_call[2] /\ pairs[i][2] \in fn_call[2]
            /\ \A i \in 1..(Len(pairs) - 1) : pairs[i][2] < pairs[i + 1][1]
            /\ \A n \in fn_call[2] :
                   \E i \in 1..Len(pairs) : pairs[i][1] <= n /\ n <= pairs[i][2]

\* C15: a Chapter that Chapter.build returns has numbers or a volume; a
\* name with a volume and no number gets the numbers {0}, and a name with
\* neither is a parse failure
C15_NumbersOrVolume ==
    (fn_call[1] = "build" /\ fn_result /= <<>>) =>
        LET parts == fn_result[1].parts
            r == fn_result[1].r
        IN  /\ r.ok => (r.ch.numbers /= {} \/ r.ch.volume /= "")
            /\ (parts.volume /= "" /\ parts.number = "") =>
                   (r.ok /\ r.ch.numbers = {0} /\ r.ch.volume = parts.volume)
            /\ (parts.volume = "" /\ parts.number = "") => ~r.ok

\* C15 witness: build has returned a Chapter for a name with a volume and no
\* number
C15_Witness ==
    /\ fn_call[1] = "build" /\ fn_result /= <<>>
    /\ fn_result[1].parts.volume /= "" /\ fn_result[1].parts.number = ""
    /\ fn_result[1].r.ok /\ fn_result[1].r.ch.numbers = {0}

\* C16: a name whose chapter marker is the range 012-014 gives the Chapter
\* of the numbers 12, 13 and 14
C16_RangeExpanded ==
    (fn_call = <<"build", "My Title", "My Title - c012-014.zip", TRUE>> /\ fn_result /= <<>>) =>
        /\ fn_result[1].r.ok
        /\ fn_result[1].r.ch.numbers = {120, 130, 140}

(***************************************************************************)
(* Claims about the directory manifests, checked under SpecManifest.       *)
(***************************************************************************)
\* C17: a call of save_directory for a manifest that exists on disk and was
\* not loaded in this run returns 0 and leaves the file as it was
C17_UnloadedManifestKept ==
    (last_save.existed /\ ~last_save.loaded) =>
        /\ last_save.ret = 0
        /\ last_save.after = last_save.before

\* C17 witness: save_directory was called for a manifest that exists and
\* was never loaded, while a Manga of that directory was in memory from an
\* earlier load of another run; and it returned 0
C17_Witness ==
    /\ last_save.path = DST /\ last_save.existed /\ ~last_save.loaded
    /\ last_save.ret = 0
    /\ runs > 0

\* C18: a manifest that was saved, loaded in a new run, gives for each
\* Series it lists the name, alias patterns, group, season map and disabled
\* flag of the Series that was saved, and saving again gives the same
\* entries
C18_ManifestRoundTrip ==
    last_save.wrote =>
        LET r == load_directory([fs |-> fs, mangas |-> <<>>, all |-> NoDict,
                                 errlog |-> {}, ret |-> 0],
                                last_save.path, last_save.after[1],
                                re_compile(args.file_filter), <<>>)
            again == directory(r.w, last_save.path)
        IN  /\ Len(r.list) = Len(last_save.objs)
            /\ \A i \in 1..Len(r.list) :
                   LET was == last_save.objs[i]
                       now == r.w.mangas[r.list[i]]
                   IN  /\ now.name = was.name
                       /\ {a.s : a \in now.aliases} = {a.s : a \in was.aliases}
                       /\ now.group = was.group
                       /\ now.seasons = was.seasons
                       /\ now.disabled = was.disabled
            /\ [i \in 1..Len(again) |-> asDict(r.w.mangas[again[i]])] = last_save.after[1]

(***************************************************************************)
(* Claims about wait.py, checked under SpecWait.                           *)
(***************************************************************************)
\* C19: no process has returned from wait_idle_queue, or runs its
\* workload, while the workload of another process is running
C19_OneAtATime ==
    \A p \in DOMAIN wpc : \A q \in DOMAIN wpc \ {p} :
        ~(wpc[p] = "running" /\ wpc[q] \in {"released", "running"})

(***************************************************************************)
(* Claims about the identity of chapters, checked under Spec.              *)
(***************************************************************************)
\* Chapter.key: (volume, group) for numbers = {0}, otherwise
\* (min, max, group, volume); the first field tells the two shapes apart
Chapter_key(c) ==
    IF c.numbers = {0} THEN <<"volume", 0, 0, c.group, c.volume>>
    ELSE <<"numbers", SetMin(c.numbers), SetMax(c.numbers), c.group, c.volume>>

\* C21: the chapters a Series holds for one number have pairwise different
\* keys: two Chapters with the same key are one element of the set
C21_OneChapterPerKey ==
    \A k \in 1..Len(mangas) : \A n \in DOMAIN mangas[k].chapters :
        \A c1 \in mangas[k].chapters[n] : \A c2 \in mangas[k].chapters[n] :
            Chapter_key(c1) = Chapter_key(c2) => c1 = c2

\* C24: when the source has been read, every entry of a Series' directory
\* that passes the file filter and is an archive or a directory is either
\* parsed and catalogued under each of its numbers, or recorded under
\* "Parser" and absent from the chapter map; a failure ends no scan
C24_ParseFailureIsLocal ==
    pc = "read_dest" =>
        \A k \in 1..Len(mangas) :
            LET self == mangas[k]
                held == UNION {self.chapters[n] : n \in DOMAIN self.chapters}
            IN  \A e \in {t \in fs : t.dir = self.path} :
                    (/\ ~re_match(re_compile(args.file_filter), e.name)
                     /\ e.kind = "file" => suffix_of(e.name) \in SUFFIXES_ARCHIVE)
                    => LET r == build(self.name, self.path, e.name, e.kind = "file")
                       IN  IF r.ok
                           THEN /\ r.ch.numbers /= {}
                                /\ \A n \in r.ch.numbers :
                                       n \in DOMAIN self.chapters /\ r.ch \in self.chapters[n]
                                /\ <<"Parser", e.name>> \notin self.errors
                           ELSE /\ <<"Parser", e.name>> \in self.errors
                                /\ \A c \in held : c.path /= <<self.path, e.name>>

\* a Series was read whose directory holds an entry that does not parse and
\* one that does
C24_Witness ==
    /\ pc = "read_dest"
    /\ \E k \in 1..Len(mangas) :
           /\ \E x \in mangas[k].errors : x[1] = "Parser"
           /\ DOMAIN mangas[k].chapters /= {}

(***************************************************************************)
(* Claims about --dry, checked under Spec.                                 *)
(***************************************************************************)
\* C25: whether --dry is given or not, each source is matched to the first
\* destination equal to it and the missing map holds the sources without
\* one; with --dry, Manga.sync is called for no pair and no chapter is
\* copied or archived into a destination
C25_DryRunMatchesOnly ==
    /\ \A i \in DOMAIN matched :
           LET j == index(mangas, dsts, mangas[srcs[i]].name)
           IN  matched[i] = IF j > 0 THEN dsts[j] ELSE 0
    /\ missing = {mangas[srcs[i]].name : i \in {x \in DOMAIN matched : matched[x] = 0}}
    /\ args.dry =>
           /\ synced = NoDict /\ attempts = {} /\ pc /= "sync"
           /\ \A e \in fs : e.dir[1] = DST[1] => e.data[1] \notin {"copy", "zip"}

\* a run with --dry has ended, in which a source matched a destination
\* that lacks one of its chapters and another source matched none
C25_Witness ==
    /\ args.dry /\ pc = "done"
    /\ \E i \in DOMAIN matched :
           /\ matched[i] /= 0
           /\ Manga_missing(mangas[matched[i]], DOMAIN mangas[srcs[i]].chapters) /= {}
    /\ missing /= {}

C30_DryRunLeavesDestination ==
    args.dry => \A e \in fs : (e.dir # <<>> /\ e.dir[1] = DST[1]) => e.data[1] = "orig"

(***************************************************************************)
(* Claims about Manga.create_all, checked under SpecScan.                  *)
(***************************************************************************)
\* C22: the directory Alpha, listed first and with no pages in its chapter
\* directory, is classified by the numbers of its archives and images
\* alone: more archives than images make it a Series; otherwise more than
\* three images make its parent the Series; otherwise neither
C22_CountsDecide ==
    LET Alpha == joinpath(SRC, "Alpha")
        mine == {e \in fs : e.dir = Alpha /\ e.kind = "file"}
        archives == Cardinality({e \in mine : suffix_of(e.name) \in SUFFIXES_ARCHIVE})
        images == Cardinality({e \in mine : suffix_of(e.name) \in SUFFIXES_IMAGE})
    IN  (/\ pc /= "read_source"
         /\ Head(listing[SRC]) = "Alpha"
         /\ listing[joinpath(Alpha, "c7")] = <<>>)
        => IF archives > images /\ archives >= 1 THEN Alpha \in DOMAIN all
           ELSE IF images > 3 THEN SRC \in DOMAIN all /\ Alpha \notin DOMAIN all
           ELSE Alpha \notin DOMAIN all

\* C29: every Series the scan of the source root registers is the root or
\* below it
C29_SeriesInsideRoot ==
    \A p \in DOMAIN all : Len(p) >= Len(SRC) /\ SubSeq(p, 1, Len(SRC)) = SRC

\* C23: a directory with a subdirectory whose scan yields a Series is not
\* registered as a Series
C23_ContainerNotSeries ==
    LET fresh == [fs |-> fs, mangas |-> <<>>, all |-> NoDict, errlog |-> {}, ret |-> 0]
        scan(sub) == create_all(fresh, sub, re_compile(args.file_filter), listing, {})
        Subdirs(d) == {joinpath(d, e.name) : e \in {t \in fs : t.dir = d /\ t.kind = "dir"}}
    IN  pc /= "read_source" =>
            \A d \in {SRC, joinpath(SRC, "Alpha")} :
                (\E sub \in Subdirs(d) : scan(sub).list /= <<>>) => d \notin DOMAIN all

\* C23 as the code has it: a directory with a subdirectory whose scan
\* yields a Series is registered only when the scan of a subdirectory of
\* loose pages registers it, as the parent of those pages; its own archives
\* and images are not counted, so the scan of the source root with such a
\* subdirectory registers nothing above the root
C23_ContainerUnlessPages ==
    LET fresh == [fs |-> fs, mangas |-> <<>>, all |-> NoDict, errlog |-> {}, ret |-> 0]
        scan(sub) == create_all(fresh, sub, re_compile(args.file_filter), listing, {})
        Subdirs(d) == {joinpath(d, e.name) : e \in {t \in fs : t.dir = d /\ t.kind = "dir"}}
    IN  pc /= "read_source" =>
            \A d \in {SRC, joinpath(SRC, "Alpha")} :
                (\E sub \in Subdirs(d) : scan(sub).list /= <<>>) =>
                    /\ d \in DOMAIN all =>
                           \E sub \in Subdirs(d) : d \in DOMAIN scan(sub).w.all
                    /\ d = SRC => parent_of(SRC) \notin DOMAIN all

\* the source root holds an archive and no image, and the directory Alpha,
\* a Series by its archives: the root is no Series
C23_Witness ==
    /\ pc = "read_dest"
    /\ "c1.zip" \in {listing[SRC][k] : k \in 1..Len(listing[SRC])}
    /\ "p1.jpg" \notin {listing[SRC][k] : k \in 1..Len(listing[SRC])}
    /\ joinpath(SRC, "Alpha") \in DOMAIN all
    /\ SRC \notin DOMAIN all

\* C26: the assert of remove_process never fails: no wait.py is ended by it
C26_HeadRemovedOnly ==
    \A p \in DOMAIN wpc : wpc[p] /= "asserted"

\* C27: every process that joins the queue returns from wait_idle_queue
\* with position 0 (checked under SpecWaitFair)
C27_EveryJoinerReturns ==
    \A p \in 1..NProcs :
        (wpc[p] \in {"create", "add"}) ~> (wpc[p] = "released" /\ position[p] = 0)
====
